---- MODULE Spec2Model ----
(***************************************************************************)
(* dir-dumper: the directory walker (internal/walker) and the ignore       *)
(* matcher (internal/ignore) as a state machine.                           *)
(*                                                                         *)
(* Threads: the walk thread (the caller's thread in sequential mode, the   *)
(* enumeration goroutine in concurrent mode), the worker goroutines        *)
(* 1..MaxWorkers, the main thread of Walk, and the environment that may    *)
(* cancel the context.                                                     *)
(***************************************************************************)
EXTENDS Integers, Sequences, FiniteSets, TLC

\* ------------------------------------------------------------------ bounds
\* Largest worker count tried (options.MaxWorkers ranges over 1..MaxWorkersBound).
MaxWorkersBound == 2
\* The size limit configured when a limit is configured at all.
SizeLimit == 2
\* Longest list of options handed to Walk.
MaxOptions == 2
\* Number of files handed to the printing handler.
MaxPrinted == 3

\* ------------------------------------------------------- names and paths
\* A file name is a sequence of characters, a relative path the sequence of
\* its names.  "." (what filepath.Rel returns for the root) is the path of
\* the single name "."; the empty string is the path of no names.
n_dot     == << "." >>
Dot       == << n_dot >>
EmptyPath == << >>

n_hidden  == << ".", "h", "i", "d", "d", "e", "n" >>
n_file_go == << "f", "i", "l", "e", ".", "g", "o" >>
n_a_go    == << "a", ".", "g", "o" >>
n_dist    == << "d", "i", "s", "t" >>
n_out_bin == << "o", "u", "t", ".", "b", "i", "n" >>
n_sub     == << "s", "u", "b" >>
n_D_GO    == << "D", ".", "G", "O" >>
n_c_go    == << "c", ".", "g", "o" >>
n_git     == << ".", "g", "i", "t" >>
n_gitfoo  == << ".", "g", "i", "t", "f", "o", "o" >>
n_keep_log  == << "k", "e", "e", "p", ".", "l", "o", "g" >>
n_other_log == << "o", "t", "h", "e", "r", ".", "l", "o", "g" >>
x_go      == << "g", "o" >>
x_GO      == << "G", "O" >>
x_dot_go  == << ".", "g", "o" >>

\* The directory tree in the order filepath.WalkDir visits it (depth first,
\* each directory's entries sorted by name).  parent = 0 marks the root.
Entries ==
  << [name |-> n_dot,     parent |-> 0, isDir |-> TRUE ],
     [name |-> n_hidden,  parent |-> 1, isDir |-> TRUE ],
     [name |-> n_file_go, parent |-> 2, isDir |-> FALSE],
     [name |-> n_a_go,    parent |-> 1, isDir |-> FALSE],
     [name |-> n_dist,    parent |-> 1, isDir |-> TRUE ],
     [name |-> n_out_bin, parent |-> 5, isDir |-> FALSE],
     [name |-> n_sub,     parent |-> 1, isDir |-> TRUE ],
     [name |-> n_D_GO,    parent |-> 7, isDir |-> FALSE],
     [name |-> n_c_go,    parent |-> 7, isDir |-> FALSE] >>

NumEntries == Len(Entries)
EntryIds   == 1..NumEntries
FileIds    == {e \in EntryIds : ~Entries[e].isDir}
DirIds     == {e \in EntryIds : Entries[e].isDir}

\* filepath.Rel(absRootDir, path): "." for the root, else the names from
\* the root's children down to the entry.
RECURSIVE RelPath(_)
RelPath(e) ==
  IF Entries[e].parent = 0 THEN Dot
  ELSE IF Entries[Entries[e].parent].parent = 0 THEN << Entries[e].name >>
  ELSE Append(RelPath(Entries[e].parent), Entries[e].name)

\* e lies strictly beneath directory d.
RECURSIVE IsUnder(_, _)
IsUnder(e, d) ==
  IF Entries[e].parent = 0 THEN FALSE
  ELSE Entries[e].parent = d \/ IsUnder(Entries[e].parent, d)

\* Where WalkDir continues after leaving out the subtree of e.
AfterSubtree(e) ==
  IF \E j \in EntryIds : j > e /\ ~IsUnder(j, e)
  THEN CHOOSE j \in EntryIds : /\ j > e /\ ~IsUnder(j, e)
                               /\ \A k \in EntryIds : (k > e /\ ~IsUnder(k, e)) => j <= k
  ELSE NumEntries + 1

\* Where WalkDir continues when the callback returns SkipDir for e: past the
\* subtree of a directory, past the rest of the containing directory for
\* another entry.
AfterSkipDir(e) ==
  IF Entries[e].isDir THEN AfterSubtree(e)
  ELSE IF Entries[e].parent = 0 THEN NumEntries + 1
  ELSE AfterSubtree(Entries[e].parent)

HasPrefixDot(name) == Len(name) > 0 /\ name[1] = "."

\* filepath.Base / filepath.Dir on a relative path: the last name, and the
\* path without it; both answer "." where nothing is left.
Base(p) == IF p = EmptyPath THEN n_dot ELSE p[Len(p)]
Dir(p)  == IF Len(p) <= 1 THEN Dot ELSE SubSeq(p, 1, Len(p) - 1)

\* strings.ToLower, letter by letter.
LowerOf ==
  [A |-> "a", B |-> "b", C |-> "c", D |-> "d", E |-> "e", F |-> "f", G |-> "g", H
   |-> "h", I |-> "i", J |-> "j", K |-> "k", L |-> "l", M |-> "m", N |-> "n", O |->
   "o", P |-> "p", Q |-> "q", R |-> "r", S |-> "s", T |-> "t", U |-> "u", V |->
   "v", W |-> "w", X |-> "x", Y |-> "y", Z |-> "z"]
LowerChar(c) == IF c \in DOMAIN LowerOf THEN LowerOf[c] ELSE c
ToLower(s) == [i \in 1..Len(s) |-> LowerChar(s[i])]

\* filepath.Ext: the suffix of the last name starting at its final dot.
LastDot(name) ==
  IF \E i \in 1..Len(name) : name[i] = "."
  THEN CHOOSE i \in 1..Len(name) : name[i] = "." /\ \A j \in (i+1)..Len(name) : name[j] # "."
  ELSE 0
Ext(p) ==
  LET name == Base(p) IN
  IF LastDot(name) = 0 THEN << >> ELSE SubSeq(name, LastDot(name), Len(name))
TrimDot(s) == IF HasPrefixDot(s) THEN Tail(s) ELSE s

\* --------------------------------------------------------- SkippedReason
ReasonIgnoredHidden     == "Ignored (Hidden Rule)"
ReasonIgnoredRule       == "Ignored (Gitignore/Custom Rule)"
ReasonFilteredExtension == "Filtered (Extension Mismatch)"
ReasonSkippedSizeLimit  == "Skipped (Size Limit Exceeded)"
ReasonSkippedNotRegular == "Skipped (Not a Regular File)"
ReasonSkippedPermError  == "Skipped (Permission Error)"
ReasonSkippedWalkError  == "Skipped (Walk Error)"
ReasonSkippedReadError  == "Skipped (Read Error)"
ReasonSkippedInfoError  == "Skipped (File Info Error)"
ReasonSkippedPathError  == "Skipped (Path Calculation Error)"

SkippedItem(path, reason, isDir) == [path |-> path, reason |-> reason, isDir |-> isDir]

\* ------------------------------------------------------------ the matcher
\* Ignore patterns as the caller writes them (the -ignore flag, WithCustomRules).
p_dist     == << "d", "i", "s", "t", "/" >>
p_star_log == << "*", ".", "l", "o", "g" >>
p_git      == << "/", ".", "g", "i", "t", "/" >>
p_star_go  == << "*", ".", "g", "o" >>

\* A rule of the gitignore engine: it matches a path by its last name (kind
\* "name": the whole name, kind "suffix": the end of the name); dirOnly rules
\* match directories only; neg marks a negation rule.
Rule(neg, dirOnly, kind, arg) == [neg |-> neg, dirOnly |-> dirOnly, kind |-> kind, arg |-> arg]

\* The rule a pattern line stands for: a leading "!" negates, a leading "/"
\* anchors, a trailing "/" restricts to directories, a leading "*" matches
\* the end of the name.
ParsePattern(pat) ==
  LET neg   == Len(pat) > 0 /\ pat[1] = "!"
      p1    == IF neg THEN Tail(pat) ELSE pat
      p2    == IF Len(p1) > 0 /\ p1[1] = "/" THEN Tail(p1) ELSE p1
      dirO  == Len(p2) > 0 /\ p2[Len(p2)] = "/"
      p3    == IF dirO THEN SubSeq(p2, 1, Len(p2) - 1) ELSE p2
      star  == Len(p3) > 0 /\ p3[1] = "*"
  IN Rule(neg, dirO, IF star THEN "suffix" ELSE "name", IF star THEN Tail(p3) ELSE p3)

\* An IgnoreMatcher value: its flags (nil marks the nil pointer), the custom
\* patterns it stores, and its engine repoIgnore: the rules the engine loaded
\* from the repository's ignore files and the paths on which the engine panics.
NilMatcher ==
  [nil |-> TRUE, disabled |-> FALSE, ignoreHidden |-> FALSE, ignoreGit |-> FALSE,
   customPatterns |-> << >>, rules |-> << >>, panicsOn |-> {}]

\* ignore.New with the options WithHiddenIgnore(o.hidden), WithGitIgnore(o.git),
\* WithDisabled(o.disabled), WithCustomRules(o.custom), over a repository whose
\* ignore files make the engine repo.  init skips the engine for a disabled
\* matcher; otherwise it loads the engine and, with the VCS policy on, appends
\* the pattern /.git/ to the stored custom patterns.
New(o, repo) ==
  [nil            |-> FALSE,
   disabled       |-> o.disabled,
   ignoreHidden   |-> o.hidden,
   ignoreGit      |-> o.git,
   customPatterns |-> IF ~o.disabled /\ o.git THEN Append(o.custom, p_git) ELSE o.custom,
   rules          |-> IF o.disabled THEN << >> ELSE repo.rules,
   panicsOn       |-> IF o.disabled THEN {} ELSE repo.panicsOn]

MatcherOptions(hidden, git, disabled, custom) ==
  [hidden |-> hidden, git |-> git, disabled |-> disabled, custom |-> custom]
\* ignore.New without options: both policies on, no custom patterns.
DefaultMatcherOptions == MatcherOptions(TRUE, TRUE, FALSE, << >>)

Engine(rules, panicsOn) == [rules |-> rules, panicsOn |-> panicsOn]
NoRules == Engine(<< >>, {})

HasSuffix(name, suf) ==
  Len(name) >= Len(suf) /\ SubSeq(name, Len(name) - Len(suf) + 1, Len(name)) = suf

RuleMatches(rule, p, isDir) ==
  /\ rule.dirOnly => isDir
  /\ IF rule.kind = "name" THEN Base(p) = rule.arg ELSE HasSuffix(Base(p), rule.arg)

\* The engine's Match for a path: the verdict of an ignored parent directory
\* stands; otherwise the last rule that matches the path decides.
\* "ignore", "include" or "none".
RECURSIVE RepoMatch(_, _, _)
RepoMatch(rules, p, isDir) ==
  LET parent == IF Len(p) > 1 THEN RepoMatch(rules, Dir(p), TRUE) ELSE "none"
      hits   == {i \in 1..Len(rules) : RuleMatches(rules[i], p, isDir)}
      last   == CHOOSE i \in hits : \A j \in hits : j <= i
  IN IF parent = "ignore" THEN "ignore"
     ELSE IF hits = {} THEN "none"
     ELSE IF rules[last].neg THEN "include" ELSE "ignore"

\* The ancestor loop of the hidden rule: some directory above p is hidden.
RECURSIVE HiddenAncestor(_)
HiddenAncestor(dir) ==
  IF dir = Dot THEN FALSE
  ELSE HasPrefixDot(Base(dir)) \/ HiddenAncestor(Dir(dir))

\* The hidden rule: the last name or a directory above it starts with a dot.
HiddenRule_BaseOnly(p) == HasPrefixDot(Base(p))
HiddenRule(p) == HasPrefixDot(Base(p)) \/ HiddenAncestor(Dir(p))

isPathInGitDir_AnyPart(p, isDir) ==
  \E i \in 1..Len(p) : p[i] = n_git
isPathInGitDir(p, isDir) ==
  \E i \in 1..Len(p) : p[i] = n_git /\ (isDir \/ i < Len(p))

\* ShouldIgnore's first test: the matcher is nil or disabled.
MatcherOff_NilOnly(m) == m.nil
MatcherOff(m) == m.nil \/ m.disabled

\* ShouldIgnore's second test: the path is the root itself.
IsRootPath_EmptyOnly(p) == p = EmptyPath
IsRootPath(p) == p = EmptyPath \/ p = Dot

\* What the recover() handler leaves in "ignored" when the engine panics.
IgnoredAfterPanic_Ignore == TRUE
IgnoredAfterPanic == FALSE

ShouldIgnore(m, p, isDir) ==
  IF MatcherOff(m) THEN FALSE
  ELSE IF IsRootPath(p) THEN FALSE
  ELSE IF m.ignoreHidden /\ HiddenRule(p) THEN TRUE
  ELSE IF m.ignoreGit /\ isPathInGitDir(p, isDir) THEN TRUE
  ELSE LET panic    == p \in m.panicsOn
           verdict  == RepoMatch(m.rules, p, isDir)
           ignored  == IF panic THEN IgnoredAfterPanic ELSE verdict = "ignore"
           included == IF panic THEN FALSE ELSE ignored /\ verdict = "include"
       IN ignored /\ ~included

\* ----------------------------------------------------------------- state
VARIABLES
  options,        \* WalkOptions: Concurrent, MaxWorkers, MaxFileSize, ExtensionMap
  matcher,        \* the *IgnoreMatcher handed to Walk
  files,          \* the file system: what Lstat, ReadFile and ReadDir answer
  cancelled,      \* options.Context is done
  mainPc,         \* where Walk's own thread is
  walkPc,         \* where the walk thread (filepath.WalkDir and its callback) is
  walkPos,        \* the entry WalkDir visits next
  walkErr,        \* what WalkDir returned
  queue,          \* filesChan: the buffered entries
  chanClosed,     \* filesChan is closed
  wpc,            \* where each worker is
  cur,            \* the entry each thread's processFile works on (0: none)
  items,          \* tracker.items
  stats,          \* the atomic counters
  calls,          \* the handler invocations made so far, in order
  evaluated,      \* the entries processEntry has evaluated (past its context check)
  handlerErr,     \* some handler invocation has returned an error
  lateStarts,     \* per thread: the processFile calls begun with the context done
  prev,           \* the handler invocations of an earlier, sequential Walk
  retErr,         \* the error Walk returned
  retItems,       \* the skipped items Walk returned
  progress,       \* the progress reporter: its timer task and the callback's invocations
  query,          \* the arguments of the caller's latest ShouldIgnore call
  answer,         \* what that call returned
  app,            \* the application: its configuration, its logger, the latest log call
  opts,           \* the Option arguments of Walk: those to apply yet, those applied
  printer         \* the JSON printer: its fields, its output, the PrintFile calls in progress

vars == << options, matcher, files, cancelled, mainPc, walkPc, walkPos, walkErr,
           queue, chanClosed, wpc, cur, items, stats, calls, evaluated,
           handlerErr, lateStarts, prev, retErr, retItems, progress, query, answer, app, opts, printer >>

\* ------------------------------------------------- the application's logger
\* Level names as the command line gives them, letter by letter.
s_empty   == << >>
s_INFO    == << "I", "N", "F", "O" >>
s_DEBUG   == << "D", "E", "B", "U", "G" >>
s_Debug   == << "D", "e", "b", "u", "g" >>
s_debug   == << "d", "e", "b", "u", "g" >>
s_info    == << "i", "n", "f", "o" >>
s_warn    == << "w", "a", "r", "n" >>
s_warning == << "w", "a", "r", "n", "i", "n", "g" >>
s_WARN    == << "W", "A", "R", "N" >>
s_error   == << "e", "r", "r", "o", "r" >>
s_none    == << "n", "o", "n", "e" >>
s_OFF     == << "O", "F", "F" >>
s_off     == << "o", "f", "f" >>
s_trace   == << "t", "r", "a", "c", "e" >>

\* LogLevel: from least to most restrictive.
LevelDebug == 0
LevelInfo  == 1
LevelWarn  == 2
LevelError == 3
LevelNone  == 4

\* The default of the -log-level flag.
DefaultLogLevel == s_INFO

LogLevelFlags ==
  { s_empty, s_INFO, s_DEBUG, s_Debug, s_debug, s_WARN, s_warning, s_error,
    s_none, s_OFF, s_trace }

\* config.New: the flags' values; -verbose and -quiet default to false.
Configs ==
  [Verbose : BOOLEAN, Quiet : BOOLEAN, LogLevel : LogLevelFlags]

parseLogLevel(level) ==
  LET l == ToLower(level) IN
  CASE l = s_debug              -> LevelDebug
    [] l = s_info               -> LevelInfo
    [] l \in {s_warn, s_warning} -> LevelWarn
    [] l = s_error              -> LevelError
    [] l \in {s_none, s_off}     -> LevelNone
    [] OTHER                    -> LevelInfo

\* logger.New
NewLogger(verbose) ==
  [level |-> IF verbose THEN LevelDebug ELSE LevelInfo, VerboseMode |-> verbose]

WithLevel(l, level) == [level |-> level, VerboseMode |-> level <= LevelDebug]

SetLevel(l, levelStr) == WithLevel(l, parseLogLevel(levelStr))

\* app.New: which of the flags decides the logger's level.
LevelSource(cfg) ==
  IF cfg.LogLevel # s_empty THEN "log-level"
  ELSE IF cfg.Quiet THEN "quiet" ELSE "verbose"

AppLogger(cfg) ==
  LET log == NewLogger(cfg.Verbose) IN
  CASE LevelSource(cfg) = "log-level" -> SetLevel(log, cfg.LogLevel)
    [] LevelSource(cfg) = "quiet"     -> WithLevel(log, LevelWarn)
    [] OTHER                          -> log

NoLogger == [level |-> LevelNone, VerboseMode |-> FALSE]
NoCall   == [level |-> LevelNone, emitted |-> FALSE]
NoApp    == [cfg |-> [Verbose |-> FALSE, Quiet |-> FALSE, LogLevel |-> DefaultLogLevel],
             built |-> FALSE, log |-> NoLogger, last |-> NoCall]

\* What no step of Walk changes: its arguments, the file system and what the
\* caller learnt from the matcher.
static == << options, matcher, files, prev, query, answer, app, opts, printer >>

\* The walk thread is thread 0, the workers are 1..MaxWorkers.
Workers == 1..options.MaxWorkers
WalkThread == 0

NoErr  == "nil"
CtxErr == "context canceled"
SkipDir == "SkipDir"

\* What Lstat and ReadFile answer for a file.
FileOk      == [lstatErr |-> FALSE, regular |-> TRUE,  size |-> SizeLimit,     readErr |-> FALSE]
FileBig     == [lstatErr |-> FALSE, regular |-> TRUE,  size |-> SizeLimit + 1, readErr |-> FALSE]
FileNoStat  == [lstatErr |-> TRUE,  regular |-> TRUE,  size |-> SizeLimit,     readErr |-> FALSE]
FileSymlink == [lstatErr |-> FALSE, regular |-> FALSE, size |-> SizeLimit,     readErr |-> FALSE]
FileNoRead  == [lstatErr |-> FALSE, regular |-> TRUE,  size |-> SizeLimit,     readErr |-> TRUE]
FileProfiles == {FileOk, FileBig, FileNoStat, FileSymlink, FileNoRead}
\* Files that would fail more than one of processFile's checks.
FileSymlinkBig == [lstatErr |-> FALSE, regular |-> FALSE, size |-> SizeLimit + 1, readErr |-> TRUE]
FileBigNoRead  == [lstatErr |-> FALSE, regular |-> TRUE,  size |-> SizeLimit + 1, readErr |-> TRUE]

\* The file whose profile varies and the directory whose listing may fail.
VariedFile == CHOOSE e \in FileIds : RelPath(e) = << n_a_go >>
VariedDir  == CHOOSE e \in DirIds : RelPath(e) = << n_sub >>
\* A directory with entries after its subtree, whose listing may fail too.
FailingDir == CHOOSE e \in DirIds : RelPath(e) = << n_dist >>

FileSystem(prof, derr) ==
  [e \in EntryIds |->
     IF e = VariedFile THEN [kind |-> "file", attr |-> prof]
     ELSE IF e \in FileIds THEN [kind |-> "file", attr |-> FileOk]
     ELSE [kind |-> "dir", readDirErr |-> IF e = VariedDir THEN derr ELSE "none"]]

\* The root that holds a.go, .hidden/file.go and dist/out.bin and nothing
\* else: the directory sub and what lies beneath it do not exist.
ScenarioAFiles ==
  [e \in EntryIds |->
     IF e = VariedDir \/ IsUnder(e, VariedDir) THEN [kind |-> "absent"]
     ELSE FileSystem(FileOk, "none")[e]]

\* A root directory that holds one regular file and nothing else.
OneFileFiles ==
  [e \in EntryIds |->
     IF e = VariedFile \/ Entries[e].parent = 0 THEN FileSystem(FileOk, "none")[e]
     ELSE [kind |-> "absent"]]

\* A root that is not a directory to walk: "absent" (it does not exist),
\* "file" (it is a regular file) or "unresolvable" (filepath.Abs fails on
\* it); nothing exists beneath it.
BadRootFiles(kind) ==
  [e \in EntryIds |->
     IF Entries[e].parent # 0 THEN [kind |-> "absent"]
     ELSE IF kind = "file" THEN [kind |-> "file", attr |-> FileOk]
     ELSE [kind |-> kind]]

\* The plain file system, but listing directory d fails with derr.
DirFails(d, derr) ==
  [e \in EntryIds |->
     IF e = d THEN [kind |-> "dir", readDirErr |-> derr]
     ELSE FileSystem(FileOk, "none")[e]]

Exists(e) == files[e].kind # "absent"

\* The first entry at or after n that exists.
NextPresent(n) ==
  IF \E j \in n..NumEntries : Exists(j)
  THEN CHOOSE j \in n..NumEntries : Exists(j) /\ \A k \in n..(j - 1) : ~Exists(k)
  ELSE NumEntries + 1

\* The file systems tried, each with the size limit it is walked under.
LimitAndFiles ==
  {[limit |-> 0, fs |-> FileSystem(prof, "none")] :
      prof \in {FileOk, FileBig, FileSymlink, FileNoRead}}
  \cup {[limit |-> SizeLimit, fs |-> FileSystem(prof, "none")] : prof \in FileProfiles}
  \cup {[limit |-> 0, fs |-> FileSystem(FileOk, derr)] : derr \in {"perm", "other"}}

\* File systems whose varied file fails several checks at once.
MixedFaults ==
  {[limit |-> lim, fs |-> FileSystem(prof, "none")] :
      lim \in {0, SizeLimit}, prof \in {FileSymlinkBig, FileBigNoRead}}

\* A disabled matcher that was given the custom pattern dist/ , over a
\* repository whose .gitignore holds the line dist/ .
DistRules == Engine(<< ParsePattern(p_dist) >>, {})
DisabledMatcher == New(MatcherOptions(TRUE, TRUE, TRUE, << p_dist >>), DistRules)
\* The default matcher over that repository.
RepoMatcher == New(DefaultMatcherOptions, DistRules)

\* A matcher without the hidden and git policies over a repository whose
\* ignore file holds the line *.go : it ignores files, not directories.
GoIgnoringMatcher ==
  New(MatcherOptions(FALSE, FALSE, FALSE, << >>), Engine(<< ParsePattern(p_star_go) >>, {}))

\* The walks tried: a matcher, an extension allow-set, a size limit and a
\* file system.  Every filter is tried on the plain file system, and the
\* filters that use the extension allow-set on every file system.
PlainFiles == [limit |-> 0, fs |-> FileSystem(FileOk, "none")]

\* WithExtensions / WithExtensionMap: the allow-set holds each extension the
\* caller supplies, without a leading dot.
WithExtensions(extensions) == {TrimDot(ext) : ext \in extensions}

\* Scenario A: hidden rule on, custom pattern dist/ , extension go, no
\* ignore file in the repository.
ScenarioAMatcher == New(MatcherOptions(TRUE, TRUE, FALSE, << p_dist >>), NoRules)
ScenarioA ==
  [m |-> ScenarioAMatcher, x |-> WithExtensions({x_go}),
   lf |-> [limit |-> 0, fs |-> ScenarioAFiles]]

OneFile ==
  [m |-> NilMatcher, x |-> WithExtensions({x_go}), lf |-> [limit |-> 0, fs |-> OneFileFiles]]

WithProgress(s, fn) == [m |-> s.m, x |-> s.x, lf |-> s.lf, p |-> fn]

QuietSetups ==
  { [m |-> DisabledMatcher, x |-> WithExtensions({}), lf |-> lf] : lf \in {PlainFiles} }
  \cup { [m |-> RepoMatcher, x |-> WithExtensions({}), lf |-> lf] : lf \in {PlainFiles} }
  \cup { [m |-> NilMatcher,  x |-> WithExtensions({x_dot_go}), lf |-> lf] : lf \in LimitAndFiles }
  \cup { [m |-> RepoMatcher, x |-> WithExtensions({x_go}), lf |-> lf] : lf \in LimitAndFiles }
  \cup { [m |-> NilMatcher,  x |-> WithExtensions({x_GO}), lf |-> lf] : lf \in {PlainFiles} }
  \cup { ScenarioA }
  \cup { [m |-> GoIgnoringMatcher, x |-> WithExtensions({}), lf |-> PlainFiles] }
  \cup { [m |-> NilMatcher,  x |-> WithExtensions({x_go}), lf |-> lf] : lf \in MixedFaults }
  \cup { [m |-> NilMatcher, x |-> WithExtensions({}),
          lf |-> [limit |-> 0, fs |-> BadRootFiles(kind)]] :
            kind \in {"absent", "file", "unresolvable"} }
  \cup { [m |-> NilMatcher, x |-> WithExtensions({x_go}),
          lf |-> [limit |-> 0, fs |-> DirFails(FailingDir, derr)]] :
            derr \in {"perm", "other"} }

\* Every walk without a progress callback, and scenario A with one.
Setups ==
  { WithProgress(s, "nil") : s \in QuietSetups }
  \cup { WithProgress(ScenarioA, fn) : fn \in {"returns", "blocks"} }

\* Sequential mode, or concurrent mode with 1..MaxWorkersBound workers.
Modes ==
  {[c |-> FALSE, n |-> 1]} \cup {[c |-> TRUE, n |-> k] : k \in 1..MaxWorkersBound}

\* ProgressFn is "nil" (no callback), "returns" (a callback that returns)
\* or "blocks" (a callback that never returns).
WalkOptions(mode, limit, x, fn) ==
  [Concurrent |-> mode.c, MaxWorkers |-> mode.n, MaxFileSize |-> limit, ExtensionMap |-> x,
   ProgressFn |-> fn]

\* defaultOptions
DefaultMaxWorkers == 10
defaultOptions ==
  [Concurrent |-> FALSE, MaxWorkers |-> DefaultMaxWorkers, MaxFileSize |-> 0,
   ExtensionMap |-> {}, ProgressFn |-> "nil"]

\* WithConcurrency and WithMaxWorkers, as functions on the options.
WithConcurrency(o, enabled) == [o EXCEPT !.Concurrent = enabled]
WithMaxWorkers_Unchecked(o, workers) == [o EXCEPT !.MaxWorkers = workers]
WithMaxWorkers(o, workers) == IF workers > 0 THEN [o EXCEPT !.MaxWorkers = workers] ELSE o

\* The Option values a caller may hand to Walk, and their application.
Options ==
  { [opt |-> "WithConcurrency", enabled |-> b] : b \in BOOLEAN }
  \cup { [opt |-> "WithMaxWorkers", workers |-> k] : k \in (0 - 1)..MaxWorkersBound }
Apply(o, opt) ==
  IF opt.opt = "WithConcurrency" THEN WithConcurrency(o, opt.enabled)
  ELSE WithMaxWorkers(o, opt.workers)

RECURSIVE OptionLists(_)
OptionLists(n) ==
  IF n = 0 THEN { << >> }
  ELSE LET shorter == OptionLists(n - 1) IN
       shorter \cup { Append(l, opt) : l \in shorter, opt \in Options }

NoOpts == [todo |-> << >>, done |-> << >>]

\* printer.New().WithJSON(true) before any PrintFile: nothing written, no
\* file counted, no call in progress, no file handed to the handler yet.
NoPrinter ==
  [jsonStarted |-> FALSE, count |-> 0, out |-> << >>,
   pc |-> [t \in 1..MaxWorkersBound |-> "idle"],
   file |-> [t \in 1..MaxWorkersBound |-> 0],
   sawStarted |-> [t \in 1..MaxWorkersBound |-> FALSE],
   handed |-> 0]

ZeroStats ==
  [totalFiles |-> 0, processedFiles |-> 0, skippedFiles |-> 0, totalDirs |-> 0, skippedDirs |-> 0]

\* The state of a Walk that has not started, over threads 0..n.
FreshWalk(n) ==
  [cancelled  |-> FALSE,
   mainPc     |-> "call",
   walkPc     |-> "none",
   walkPos    |-> 1,
   walkErr    |-> NoErr,
   queue      |-> << >>,
   chanClosed |-> FALSE,
   wpc        |-> [w \in 1..n |-> "none"],
   cur        |-> [t \in 0..n |-> 0],
   items      |-> << >>,
   stats      |-> ZeroStats,
   calls      |-> << >>,
   evaluated  |-> {},
   handlerErr |-> FALSE,
   lateStarts |-> [t \in 0..n |-> 0],
   progress   |-> [timer |-> "none", called |-> FALSE, late |-> FALSE, afterReturn |-> FALSE,
                   last |-> ZeroStats],
   retErr     |-> NoErr,
   retItems   |-> << >>]

Fresh(n) ==
  LET f == FreshWalk(n) IN
  /\ cancelled = f.cancelled
  /\ mainPc = f.mainPc
  /\ walkPc = f.walkPc
  /\ walkPos = f.walkPos
  /\ walkErr = f.walkErr
  /\ queue = f.queue
  /\ chanClosed = f.chanClosed
  /\ wpc = f.wpc
  /\ cur = f.cur
  /\ items = f.items
  /\ stats = f.stats
  /\ calls = f.calls
  /\ evaluated = f.evaluated
  /\ handlerErr = f.handlerErr
  /\ lateStarts = f.lateStarts
  /\ progress = f.progress
  /\ retErr = f.retErr
  /\ retItems = f.retItems

NoPrev == [ran |-> FALSE, calls |-> {}]
NoQuery == [path |-> EmptyPath, isDir |-> FALSE, asked |-> FALSE]

InitWith(modes, setups) ==
  /\ \E mode \in modes, s \in setups :
       /\ options = WalkOptions(mode, s.lf.limit, s.x, s.p)
       /\ matcher = s.m
       /\ files = s.lf.fs
       /\ Fresh(mode.n)
  /\ prev = NoPrev
  /\ query = NoQuery
  /\ answer = FALSE
  /\ app = NoApp
  /\ opts = NoOpts
  /\ printer = NoPrinter

Init == InitWith(Modes, Setups)

\* ------------------------------------------------------------ processEntry
\* The extension check: the allow-set is empty or holds the lower-cased
\* extension of the path.
ExtensionAllowed(p) ==
  options.ExtensionMap = {} \/ ToLower(TrimDot(Ext(p))) \in options.ExtensionMap

\* What the callback returns to WalkDir for a directory the matcher ignores.
IgnoredDirReturn_SkipNothing == NoErr
IgnoredDirReturn == SkipDir

\* What processEntry returns for a file the matcher ignores: nil.
IgnoredFileReturn_SkipDir == SkipDir
IgnoredFileReturn == NoErr

\* What processEntry returns for an entry reported with an error: SkipDir
\* for a directory that may not be listed, nil otherwise.
WalkErrorReturn_Fatal(isDir, reason) == "walk error"
WalkErrorReturn(isDir, reason) ==
  IF isDir /\ reason = ReasonSkippedPermError THEN SkipDir ELSE NoErr

\* processEntry past its context check, for entry e reported with error err
\* ("none", "perm" or "other"): what it returns (ret, process), the item it
\* tracks and the counters it adds to.
processEntry(e, err) ==
  LET isDir == files[e].kind = "dir"
      rel   == RelPath(e)
      seen  == IF isDir THEN [ZeroStats EXCEPT !.totalDirs = 1]
                        ELSE [ZeroStats EXCEPT !.totalFiles = 1]
      skip  == IF isDir THEN [seen EXCEPT !.skippedDirs = 1]
                        ELSE [seen EXCEPT !.skippedFiles = 1]
  IN IF err # "none" THEN
       LET reason == IF err = "perm" THEN ReasonSkippedPermError ELSE ReasonSkippedWalkError
       IN [ret     |-> WalkErrorReturn(isDir, reason),
           process |-> FALSE,
           track   |-> << SkippedItem(rel, reason, isDir) >>,
           add     |-> skip]
     ELSE IF rel = Dot THEN
       [ret |-> NoErr, process |-> FALSE, track |-> << >>, add |-> seen]
     ELSE IF ShouldIgnore(matcher, rel, isDir) THEN
       [ret     |-> IF isDir THEN IgnoredDirReturn ELSE IgnoredFileReturn,
        process |-> FALSE,
        track   |-> << SkippedItem(rel, ReasonIgnoredRule, isDir) >>,
        add     |-> skip]
     ELSE IF isDir THEN
       [ret |-> NoErr, process |-> FALSE, track |-> << >>, add |-> seen]
     ELSE IF ~ExtensionAllowed(rel) THEN
       [ret     |-> NoErr,
        process |-> FALSE,
        track   |-> << SkippedItem(rel, ReasonFilteredExtension, FALSE) >>,
        add     |-> skip]
     ELSE
       [ret |-> NoErr, process |-> TRUE, track |-> << >>,
        add |-> [seen EXCEPT !.processedFiles = 1]]

AddStats(a, b) ==
  [totalFiles     |-> a.totalFiles + b.totalFiles,
   processedFiles |-> a.processedFiles + b.processedFiles,
   skippedFiles   |-> a.skippedFiles + b.skippedFiles,
   totalDirs      |-> a.totalDirs + b.totalDirs,
   skippedDirs    |-> a.skippedDirs + b.skippedDirs]

\* ------------------------------------------------------------- processFile
HandlerCall(rel, content, err) == [path |-> rel, content |-> content, err |-> err]

\* The size test: a file is over the limit when it is larger than it.
ExceedsLimit_AtLimit(size, limit) == size >= limit
ExceedsLimit(size, limit) == size > limit

\* The handler call processFile makes when ReadFile fails.
ReadErrorCall_KeepsContent(rel) == HandlerCall(rel, "bytes", "failed to read file")
ReadErrorCall(rel) == HandlerCall(rel, "nil", "failed to read file")

\* processFile: the item it tracks and the handler call it makes (none for
\* a file that is not regular).
processFile_SizeBeforeRegular(e) ==
  LET rel   == RelPath(e)
      f     == files[e].attr
      limit == options.MaxFileSize
  IN IF limit > 0 /\ f.lstatErr THEN
       [track |-> << SkippedItem(rel, ReasonSkippedInfoError, FALSE) >>,
        call  |-> << HandlerCall(rel, "nil", "failed to get file info") >>]
     ELSE IF limit > 0 /\ ExceedsLimit(f.size, limit) THEN
       [track |-> << SkippedItem(rel, ReasonSkippedSizeLimit, FALSE) >>,
        call  |-> << HandlerCall(rel, "nil", "file size exceeds limit") >>]
     ELSE IF limit > 0 /\ ~f.regular THEN
       [track |-> << SkippedItem(rel, ReasonSkippedNotRegular, FALSE) >>,
        call  |-> << >>]
     ELSE IF f.readErr THEN
       [track |-> << SkippedItem(rel, ReasonSkippedReadError, FALSE) >>,
        call  |-> << ReadErrorCall(rel) >>]
     ELSE
       [track |-> << >>,
        call  |-> << HandlerCall(rel, "bytes", NoErr) >>]
processFile(e) ==
  LET rel   == RelPath(e)
      f     == files[e].attr
      limit == options.MaxFileSize
  IN IF limit > 0 /\ f.lstatErr THEN
       [track |-> << SkippedItem(rel, ReasonSkippedInfoError, FALSE) >>,
        call  |-> << HandlerCall(rel, "nil", "failed to get file info") >>]
     ELSE IF limit > 0 /\ ~f.regular THEN
       [track |-> << SkippedItem(rel, ReasonSkippedNotRegular, FALSE) >>,
        call  |-> << >>]
     ELSE IF limit > 0 /\ ExceedsLimit(f.size, limit) THEN
       [track |-> << SkippedItem(rel, ReasonSkippedSizeLimit, FALSE) >>,
        call  |-> << HandlerCall(rel, "nil", "file size exceeds limit") >>]
     ELSE IF f.readErr THEN
       [track |-> << SkippedItem(rel, ReasonSkippedReadError, FALSE) >>,
        call  |-> << ReadErrorCall(rel) >>]
     ELSE
       [track |-> << >>,
        call  |-> << HandlerCall(rel, "bytes", NoErr) >>]

\* SkippedTracker.Track under its lock: the items are appended to the list.
\* (Each step tracks at most one item.)
Track_Unlocked(list, new) ==
  IF list # << >> /\ new # << >> THEN SubSeq(list, 1, Len(list) - 1) \o new ELSE list \o new
Track(list, new) == list \o new

\* Where the callback goes with a file that passed the filters: it sends it
\* to filesChan in concurrent mode and runs processFile itself otherwise.
AfterDecision_AlwaysQueue(concurrent) == "push"
AfterDecision(concurrent) == IF concurrent THEN "push" ELSE "read"

\* processFile begins by calling the progress callback, when there is one,
\* on its own thread: it goes on once the callback has returned.
ProgressFnReturns == options.ProgressFn # "blocks"
\* ... with ProgressStats{CurrentFilePath: relativePath}: every counter of
\* that snapshot is zero.
FileSnapshot == ZeroStats
AfterFileCallback ==
  IF options.ProgressFn = "nil" THEN progress
  ELSE [progress EXCEPT !.called = TRUE, !.last = FileSnapshot]

\* ------------------------------------------------------------ the context
\* The caller (or a deadline) cancels the context while Walk runs.
Cancel ==
  /\ ~cancelled
  /\ mainPc # "returned"
  /\ cancelled' = TRUE
  /\ UNCHANGED << static, progress, mainPc, walkPc, walkPos, walkErr, queue, chanClosed, wpc,
                  cur, items, stats, calls, evaluated, handlerErr, lateStarts, retErr, retItems >>

\* ------------------------------------------------------------ Walk: start
\* Walk resolves the root, creates the tracker and the counters and starts
\* either the workers and the enumeration goroutine or the sequential walk.
AbsErr == "failed to get absolute path"

\* The timer task is started only when a progress callback is configured.
TimerStarted(fn) == IF fn = "nil" THEN "none" ELSE "running"

WalkStart ==
  /\ mainPc = "call"
  /\ IF files[1].kind = "unresolvable"
     THEN /\ mainPc' = "returned"
          /\ retErr' = AbsErr
          /\ retItems' = << SkippedItem(Dot, ReasonSkippedPathError, TRUE) >>
          /\ UNCHANGED << wpc, walkPc, progress >>
     ELSE /\ mainPc' = IF options.Concurrent THEN "wait" ELSE "seq"
          /\ wpc' = [w \in Workers |-> IF options.Concurrent THEN "recv" ELSE "none"]
          /\ walkPc' = "entry"
          /\ progress' = [progress EXCEPT !.timer = TimerStarted(options.ProgressFn)]
          /\ UNCHANGED << retErr, retItems >>
  /\ UNCHANGED << static, cancelled, walkPos, walkErr, queue, chanClosed, cur,
                  items, stats, calls, evaluated, handlerErr, lateStarts >>

\* ---------------------------------------------------------- the walk thread
\* WalkDir returns err, or moves on to entry next.  In concurrent mode the
\* goroutine then sends the result on done and closes walkFinished.
WalkDirReturns(err) ==
  /\ walkPc' = "done"
  /\ walkErr' = err

WalkDirMovesTo(next) ==
  LET n == NextPresent(next) IN
  IF n > NumEntries
  THEN /\ WalkDirReturns(NoErr)
       /\ walkPos' = n
  ELSE /\ walkPc' = "entry"
       /\ walkPos' = n
       /\ UNCHANGED walkErr

\* processEntry begins by looking at the context: a context that is done
\* ends the walk.
EntrySeesDone_Never(c) == FALSE
EntrySeesDone(c) == c

\* The callback runs processEntry on the entry WalkDir visits (first call:
\* no error, but for a root that Lstat does not find).  A cancelled context
\* ends the walk with the context's error.
WalkEntry ==
  /\ walkPc = "entry"
  /\ UNCHANGED << static, progress, cancelled, mainPc, queue, chanClosed, wpc, calls,
                  handlerErr, lateStarts, retErr, retItems >>
  /\ IF EntrySeesDone(cancelled) THEN
       /\ WalkDirReturns(CtxErr)
       /\ UNCHANGED << walkPos, cur, items, stats, evaluated >>
     ELSE
       LET e == walkPos
           r == processEntry(e, IF Exists(e) THEN "none" ELSE "other")
       IN /\ evaluated' = evaluated \cup {e}
          /\ items' = Track(items, r.track)
          /\ stats' = AddStats(stats, r.add)
          /\ IF r.ret \notin {NoErr, SkipDir} THEN
               /\ WalkDirReturns(r.ret)
               /\ UNCHANGED << walkPos, cur >>
             ELSE IF r.ret = SkipDir THEN
               /\ WalkDirMovesTo(AfterSkipDir(e))
               /\ UNCHANGED cur
             ELSE IF r.process THEN
               /\ walkPc' = AfterDecision(options.Concurrent)
               /\ cur' = [cur EXCEPT ![WalkThread] = e]
               /\ UNCHANGED << walkPos, walkErr >>
             ELSE IF files[e].kind = "dir" /\ files[e].readDirErr # "none" THEN
               /\ walkPc' = "readdir"
               /\ UNCHANGED << walkPos, walkErr, cur >>
             ELSE
               /\ WalkDirMovesTo(e + 1)
               /\ UNCHANGED cur

\* ReadDir failed on the directory: WalkDir calls the callback a second time,
\* with the error.  A directory that cannot be opened lists nothing; after
\* another error WalkDir goes on with the entries it did read.
WalkReadDirError ==
  /\ walkPc = "readdir"
  /\ UNCHANGED << static, progress, cancelled, mainPc, queue, chanClosed, wpc, cur, calls,
                  handlerErr, lateStarts, retErr, retItems >>
  /\ IF EntrySeesDone(cancelled) THEN
       /\ WalkDirReturns(CtxErr)
       /\ UNCHANGED << walkPos, items, stats, evaluated >>
     ELSE
       LET e == walkPos
           r == processEntry(e, files[e].readDirErr)
       IN /\ evaluated' = evaluated \cup {e}
          /\ items' = Track(items, r.track)
          /\ stats' = AddStats(stats, r.add)
          /\ IF r.ret \notin {NoErr, SkipDir}
             THEN WalkDirReturns(r.ret) /\ UNCHANGED walkPos
             ELSE IF r.ret = SkipDir \/ files[e].readDirErr = "perm"
             THEN WalkDirMovesTo(AfterSubtree(e))
             ELSE WalkDirMovesTo(e + 1)

\* Concurrent mode: the select that sends the file to filesChan ...
QueueCap_OneMore == options.MaxWorkers * 2 + 1
QueueCap == options.MaxWorkers * 2

PushSend ==
  /\ walkPc = "push"
  /\ Len(queue) < QueueCap
  /\ queue' = Append(queue, cur[WalkThread])
  /\ cur' = [cur EXCEPT ![WalkThread] = 0]
  /\ WalkDirMovesTo(walkPos + 1)
  /\ UNCHANGED << static, progress, cancelled, mainPc, chanClosed, wpc, items, stats,
                  calls, evaluated, handlerErr, lateStarts, retErr, retItems >>

\* ... or takes the Done case, which ends the walk with the context's error.
PushSeesDone_Never(c) == FALSE
PushSeesDone(c) == c

PushCancelled ==
  /\ walkPc = "push"
  /\ PushSeesDone(cancelled)
  /\ WalkDirReturns(CtxErr)
  /\ UNCHANGED << static, progress, cancelled, mainPc, walkPos, queue, chanClosed, wpc, cur,
                  items, stats, calls, evaluated, handlerErr, lateStarts, retErr, retItems >>

\* What the sequential callback returns to WalkDir after processFile, given
\* whether the handler returned an error: processFile only logs that error.
SeqCallbackResult_Propagates(herr) == IF herr THEN "handler error" ELSE NoErr
SeqCallbackResult(herr) == NoErr

\* Sequential mode: processFile on the walk thread; the handler, when it is
\* called, returns with or without an error (herr).  After processFile the
\* callback adds one to processedFiles and returns nil.
SeqProcess ==
  /\ walkPc = "read"
  /\ ProgressFnReturns
  /\ progress' = AfterFileCallback
  /\ LET out == processFile(cur[WalkThread])
     IN /\ items' = Track(items, out.track)
        /\ \E herr \in (IF out.call = << >> THEN {FALSE} ELSE BOOLEAN) :
             /\ handlerErr' = (handlerErr \/ herr)
             /\ calls' = IF out.call = << >> THEN calls
                         ELSE Append(calls, out.call[1])
             /\ IF SeqCallbackResult(herr) = NoErr
                THEN /\ stats' = [stats EXCEPT !.processedFiles = @ + 1]
                     /\ WalkDirMovesTo(walkPos + 1)
                ELSE /\ WalkDirReturns(SeqCallbackResult(herr))
                     /\ UNCHANGED << stats, walkPos >>
  /\ cur' = [cur EXCEPT ![WalkThread] = 0]
  /\ lateStarts' = [lateStarts EXCEPT ![WalkThread] = @ + (IF cancelled THEN 1 ELSE 0)]
  /\ UNCHANGED << static, cancelled, mainPc, queue, chanClosed, wpc, evaluated,
                  retErr, retItems >>

\* ------------------------------------------------------------- the workers
\* for item := range filesChan: a worker takes the next buffered item ...
WorkerRecv(w) ==
  /\ wpc[w] = "recv"
  /\ queue # << >>
  /\ cur' = [cur EXCEPT ![w] = Head(queue)]
  /\ queue' = Tail(queue)
  /\ wpc' = [wpc EXCEPT ![w] = "check"]
  /\ UNCHANGED << static, progress, cancelled, mainPc, walkPc, walkPos, walkErr, chanClosed,
                  items, stats, calls, evaluated, handlerErr, lateStarts, retErr, retItems >>

\* ... and leaves the loop once the channel is closed and drained.
RangeEnds_OnEmpty(q, closed) == q = << >>
RangeEnds(q, closed) == q = << >> /\ closed

WorkerClosed(w) ==
  /\ wpc[w] = "recv"
  /\ RangeEnds(queue, chanClosed)
  /\ wpc' = [wpc EXCEPT ![w] = "exited"]
  /\ UNCHANGED << static, progress, cancelled, mainPc, walkPc, walkPos, walkErr, queue, chanClosed,
                  cur, items, stats, calls, evaluated, handlerErr, lateStarts, retErr, retItems >>

\* The select on the context at the top of the loop body: a cancelled
\* context makes the worker return, dropping the item it holds.
WorkerSeesDone_Never(c) == FALSE
WorkerSeesDone(c) == c

WorkerCheck(w) ==
  /\ wpc[w] = "check"
  /\ wpc' = [wpc EXCEPT ![w] = IF WorkerSeesDone(cancelled) THEN "exited" ELSE "read"]
  /\ UNCHANGED << static, progress, cancelled, mainPc, walkPc, walkPos, walkErr, queue, chanClosed,
                  cur, items, stats, calls, evaluated, handlerErr, lateStarts, retErr, retItems >>

\* processFile in a worker; the handler, when it is called, returns with or
\* without an error (herr), which processFile logs.
WorkerProcess(w) ==
  /\ wpc[w] = "read"
  /\ ProgressFnReturns
  /\ progress' = AfterFileCallback
  /\ LET out == processFile(cur[w])
     IN /\ items' = Track(items, out.track)
        /\ \E herr \in (IF out.call = << >> THEN {FALSE} ELSE BOOLEAN) :
             /\ handlerErr' = (handlerErr \/ herr)
             /\ calls' = IF out.call = << >> THEN calls
                         ELSE Append(calls, out.call[1])
  /\ cur' = [cur EXCEPT ![w] = 0]
  /\ wpc' = [wpc EXCEPT ![w] = "recv"]
  /\ lateStarts' = [lateStarts EXCEPT ![w] = @ + (IF cancelled THEN 1 ELSE 0)]
  /\ UNCHANGED << static, cancelled, mainPc, walkPc, walkPos, walkErr, queue, chanClosed,
                  stats, evaluated, retErr, retItems >>

\* ------------------------------------------------------ Walk: the way out
\* Concurrent mode: once walkFinished is closed (whether the select took the
\* Done case first or not) Walk closes filesChan.
MainClose ==
  /\ mainPc = "wait"
  /\ walkPc = "done"
  /\ chanClosed' = TRUE
  /\ mainPc' = "wgWait"
  /\ UNCHANGED << static, progress, cancelled, walkPc, walkPos, walkErr, queue, wpc, cur,
                  items, stats, calls, evaluated, handlerErr, lateStarts, retErr, retItems >>

\* wg.Wait() is over when every worker has exited; sequential mode returns
\* when WalkDir does.
WorkersJoined_AnyExited == \E w \in Workers : wpc[w] = "exited"
WorkersJoined == \A w \in Workers : wpc[w] = "exited"

WalkReturn ==
  /\ \/ mainPc = "wgWait" /\ WorkersJoined
     \/ mainPc = "seq" /\ walkPc = "done"
  /\ mainPc' = "returned"
  /\ retErr' = walkErr
  /\ retItems' = items
  /\ UNCHANGED << static, progress, cancelled, walkPc, walkPos, walkErr, queue, chanClosed, wpc,
                  cur, items, stats, calls, evaluated, handlerErr, lateStarts >>

\* ------------------------------------------------------ the progress timer
\* The timer task's select: the ticker fires and the task calls the
\* callback (a callback that blocks keeps the task), or progressCtx is done
\* and the task returns.  progressCtx is cancelled when Walk returns.
\* The snapshot the timer task hands to the callback: the counters now.
TimerSnapshot == stats

TimerTick ==
  /\ progress.timer = "running"
  /\ progress' = [timer  |-> IF options.ProgressFn = "blocks" THEN "blocked" ELSE "running",
                  called |-> TRUE,
                  late   |-> progress.late \/ cancelled,
                  afterReturn |-> progress.afterReturn \/ mainPc = "returned",
                  last   |-> TimerSnapshot]
  /\ UNCHANGED << static, cancelled, mainPc, walkPc, walkPos, walkErr, queue, chanClosed,
                  wpc, cur, items, stats, calls, evaluated, handlerErr, lateStarts,
                  retErr, retItems >>

TimerStop ==
  /\ progress.timer = "running"
  /\ mainPc = "returned"
  /\ progress' = [progress EXCEPT !.timer = "stopped"]
  /\ UNCHANGED << static, cancelled, mainPc, walkPc, walkPos, walkErr, queue, chanClosed,
                  wpc, cur, items, stats, calls, evaluated, handlerErr, lateStarts,
                  retErr, retItems >>

\* ---------------------------------------------------------- specification
WalkStep ==
  \/ WalkEntry
  \/ WalkReadDirError
  \/ PushSend
  \/ PushCancelled
  \/ SeqProcess

WorkerStep(w) ==
  \/ WorkerRecv(w)
  \/ WorkerClosed(w)
  \/ WorkerCheck(w)
  \/ WorkerProcess(w)

MainStep ==
  \/ WalkStart
  \/ MainClose
  \/ WalkReturn

TimerStep ==
  \/ TimerTick
  \/ TimerStop

Next ==
  \/ Cancel
  \/ MainStep
  \/ WalkStep
  \/ \E w \in Workers : WorkerStep(w)
  \/ TimerStep

Spec == Init /\ [][Next]_vars

\* A caller that runs Walk sequentially and then, when that walk was not
\* cancelled, again in concurrent mode with the same arguments over the same
\* file system, keeping the first walk's handler invocations.
CallSet == {calls[i] : i \in 1..Len(calls)}

WalkAgainConcurrently ==
  /\ mainPc = "returned"
  /\ ~options.Concurrent
  /\ ~cancelled
  /\ ~prev.ran
  /\ prev' = [ran |-> TRUE, calls |-> CallSet]
  /\ \E n \in 1..MaxWorkersBound :
       /\ options' = [options EXCEPT !.Concurrent = TRUE, !.MaxWorkers = n]
       /\ LET f == FreshWalk(n) IN
            /\ cancelled' = f.cancelled
            /\ mainPc' = f.mainPc
            /\ walkPc' = f.walkPc
            /\ walkPos' = f.walkPos
            /\ walkErr' = f.walkErr
            /\ queue' = f.queue
            /\ chanClosed' = f.chanClosed
            /\ wpc' = f.wpc
            /\ cur' = f.cur
            /\ items' = f.items
            /\ stats' = f.stats
            /\ calls' = f.calls
            /\ evaluated' = f.evaluated
            /\ handlerErr' = f.handlerErr
            /\ lateStarts' = f.lateStarts
            /\ progress' = f.progress
            /\ retErr' = f.retErr
            /\ retItems' = f.retItems
  /\ UNCHANGED << matcher, files, query, answer, app, opts, printer >>

NextTwice == Next \/ WalkAgainConcurrently

SpecTwice == InitWith({[c |-> FALSE, n |-> 1]}, Setups) /\ [][NextTwice]_vars

\* A caller that walks without a size limit and then, when that walk was
\* not cancelled, walks the same tree again under a limit that no file
\* exceeds, keeping the first walk's handler invocations.
AmpleLimit == SizeLimit + 1

WalkAgainWithLimit ==
  /\ mainPc = "returned"
  /\ options.MaxFileSize = 0
  /\ ~cancelled
  /\ ~prev.ran
  /\ prev' = [ran |-> TRUE, calls |-> CallSet]
  /\ options' = [options EXCEPT !.MaxFileSize = AmpleLimit]
  /\ LET f == FreshWalk(options.MaxWorkers) IN
       /\ cancelled' = f.cancelled
       /\ mainPc' = f.mainPc
       /\ walkPc' = f.walkPc
       /\ walkPos' = f.walkPos
       /\ walkErr' = f.walkErr
       /\ queue' = f.queue
       /\ chanClosed' = f.chanClosed
       /\ wpc' = f.wpc
       /\ cur' = f.cur
       /\ items' = f.items
       /\ stats' = f.stats
       /\ calls' = f.calls
       /\ evaluated' = f.evaluated
       /\ handlerErr' = f.handlerErr
       /\ lateStarts' = f.lateStarts
       /\ progress' = f.progress
       /\ retErr' = f.retErr
       /\ retItems' = f.retItems
  /\ UNCHANGED << matcher, files, query, answer, app, opts, printer >>

\* Trees walked without a limit: the varied file is regular, a symbolic
\* link, unreadable or large; a directory whose listing fails; a walk with a
\* progress callback.
LimitSetups ==
  { WithProgress([m |-> NilMatcher, x |-> WithExtensions({x_go}),
                  lf |-> [limit |-> 0, fs |-> FileSystem(prof, "none")]], "nil") :
      prof \in {FileOk, FileSymlink, FileNoRead, FileBig} }
  \cup { WithProgress([m |-> NilMatcher, x |-> WithExtensions({x_go}),
                       lf |-> [limit |-> 0, fs |-> FileSystem(FileOk, "other")]], "nil"),
          WithProgress(OneFile, "returns") }

NextLimit == Next \/ WalkAgainWithLimit

SpecLimit == InitWith(Modes, LimitSetups) /\ [][NextLimit]_vars

\* The Go scheduler runs every goroutine that can take a step: the main
\* thread, the walk thread and each worker.  Cancellation is up to the caller.
WorkerRuns(w) == w \in Workers /\ WorkerStep(w)

\* The walks whose termination is checked: four files that reach the queue,
\* and a walk under a size limit with a file that is not regular.
FairSetups ==
  { WithProgress([m |-> NilMatcher,  x |-> {x_go}, lf |-> PlainFiles], "nil"),
    WithProgress([m |-> RepoMatcher, x |-> {x_go},
                  lf |-> [limit |-> SizeLimit, fs |-> FileSystem(FileSymlink, "other")]], "nil"),
    WithProgress(OneFile, "returns") }

FairSpec ==
  /\ InitWith(Modes, FairSetups)
  /\ [][Next]_vars
  /\ WF_vars(MainStep)
  /\ WF_vars(WalkStep)
  /\ \A w \in 1..MaxWorkersBound : WF_vars(WorkerRuns(w))

\* The same scheduling, over walks with a progress callback that returns
\* and with one that never does.
FairSpecProgress ==
  /\ InitWith(Modes, FairSetups \cup {WithProgress(ScenarioA, fn) : fn \in {"returns", "blocks"}})
  /\ [][Next]_vars
  /\ WF_vars(MainStep)
  /\ WF_vars(WalkStep)
  /\ \A w \in 1..MaxWorkersBound : WF_vars(WorkerRuns(w))

\* ------------------------------------------------- the matcher on its own
\* The repositories the matchers are built over: no ignore file, the line
\* dist/ , the lines *.log and !keep.log , and the line *.log with an engine
\* that panics on other.log .
LogRules == Engine(<< ParsePattern(p_star_log), Rule(TRUE, FALSE, "name", n_keep_log) >>, {})
PanicRules == Engine(<< ParsePattern(p_star_log) >>, {<< n_other_log >>})
Engines == {NoRules, DistRules, LogRules, PanicRules}

\* Every matcher ignore.New builds from the two policies, the disabled flag
\* and the custom patterns over these repositories, and the nil matcher.
Matchers ==
  {New(MatcherOptions(h, g, d, c), repo) :
      h \in BOOLEAN, g \in BOOLEAN, d \in BOOLEAN,
      c \in {<< >>, << p_star_log, p_dist >>}, repo \in Engines}
  \cup {NilMatcher}

\* The relative paths ShouldIgnore is asked about.
QueryPaths ==
  { EmptyPath, Dot,
    << n_a_go >>, << n_sub, n_c_go >>,
    << n_hidden >>, << n_hidden, n_file_go >>, << n_sub, n_hidden >>,
    << n_sub, n_hidden, n_a_go >>,
    << n_dist >>, << n_dist, n_out_bin >>, << n_sub, n_dist >>,
    << n_git >>, << n_git, n_a_go >>, << n_git, n_sub >>,
    << n_sub, n_git >>, << n_sub, n_git, n_a_go >>,
    << n_gitfoo >>, << n_sub, n_gitfoo >>,
    << n_keep_log >>, << n_other_log >>, << n_sub, n_other_log >>, << n_sub, n_keep_log >> }

\* A caller asks the matcher about a path.
AskMatcher ==
  /\ \E p \in QueryPaths, isDir \in BOOLEAN :
       /\ query' = [path |-> p, isDir |-> isDir, asked |-> TRUE]
       /\ answer' = ShouldIgnore(matcher, p, isDir)
  /\ UNCHANGED << options, matcher, files, prev, cancelled, mainPc, walkPc, walkPos,
                  walkErr, queue, chanClosed, wpc, cur, items, stats, calls,
                  evaluated, handlerErr, lateStarts, retErr, retItems, progress, app, opts, printer >>

InitMatcher ==
  /\ matcher \in Matchers
  /\ options = WalkOptions([c |-> FALSE, n |-> 1], 0, WithExtensions({}), "nil")
  /\ files = PlainFiles.fs
  /\ Fresh(1)
  /\ prev = NoPrev
  /\ query = NoQuery
  /\ answer = FALSE
  /\ app = NoApp
  /\ opts = NoOpts
  /\ printer = NoPrinter

SpecMatcher == InitMatcher /\ [][AskMatcher]_vars

\* ------------------------------------------------- Walk applies its options
\* Walk: options := defaultOptions(); for each opt: opt(&options); then the
\* walk begins (the queue is made and the workers are started).
ApplyOption ==
  /\ mainPc = "call"
  /\ opts.todo # << >>
  /\ options' = Apply(options, Head(opts.todo))
  /\ opts' = [todo |-> Tail(opts.todo), done |-> Append(opts.done, Head(opts.todo))]
  /\ UNCHANGED << matcher, files, prev, cancelled, mainPc, walkPc, walkPos, walkErr, queue,
                  chanClosed, wpc, cur, items, stats, calls, evaluated, handlerErr,
                  lateStarts, retErr, retItems, progress, query, answer, app, printer >>

WalkBegins ==
  /\ opts.todo = << >>
  /\ WalkStart

InitOptions ==
  /\ options = defaultOptions
  /\ matcher = NilMatcher
  /\ files = PlainFiles.fs
  /\ Fresh(DefaultMaxWorkers)
  /\ prev = NoPrev
  /\ query = NoQuery
  /\ answer = FALSE
  /\ app = NoApp
  /\ \E l \in OptionLists(MaxOptions) : opts = [todo |-> l, done |-> << >>]
  /\ printer = NoPrinter

NextOptions ==
  \/ ApplyOption
  \/ WalkBegins

SpecOptions == InitOptions /\ [][NextOptions]_vars

\* ----------------------------------------------------- the JSON printer
\* The handler of App.Run calls PrintFile on the thread that runs it: in
\* concurrent mode each worker, for the files it takes from the queue.
beyondPrinter ==
  << options, matcher, files, prev, cancelled, mainPc, walkPc, walkPos, walkErr, queue,
     chanClosed, wpc, cur, items, stats, calls, evaluated, handlerErr, lateStarts,
     retErr, retItems, progress, query, answer, app, opts >>

\* What one write puts on the output: "[\n", ",\n" or the entry of a file.
Bracket  == [tok |-> "[", file |-> 0]
Comma    == [tok |-> ",", file |-> 0]
Entry(f) == [tok |-> "entry", file |-> f]

\* PrintFile begins: p.count.Add(1), then the test of p.jsonStarted (a
\* plain field, read without any lock).
PrintFileBegins(t) ==
  /\ printer.pc[t] = "idle"
  /\ printer.handed < MaxPrinted
  /\ printer' = [printer EXCEPT !.handed = @ + 1,
                                !.file[t] = printer.handed + 1,
                                !.count = @ + 1,
                                !.sawStarted[t] = printer.jsonStarted,
                                !.pc[t] = "separator"]
  /\ UNCHANGED beyondPrinter

\* The bracket that opens the array (and p.jsonStarted = true), or the
\* comma between entries.
PrintFileSeparator(t) ==
  /\ printer.pc[t] = "separator"
  /\ printer' = [printer EXCEPT !.out = Append(@, IF printer.sawStarted[t] THEN Comma ELSE Bracket),
                                !.jsonStarted = TRUE,
                                !.pc[t] = "entry"]
  /\ UNCHANGED beyondPrinter

\* The entry, in one write.
PrintFileEntry(t) ==
  /\ printer.pc[t] = "entry"
  /\ printer' = [printer EXCEPT !.out = Append(@, Entry(printer.file[t])),
                                !.pc[t] = "idle"]
  /\ UNCHANGED beyondPrinter

InitPrinter ==
  /\ \E mode \in {m \in Modes : m.c} :
       /\ options = WalkOptions(mode, 0, WithExtensions({}), "nil")
       /\ Fresh(mode.n)
  /\ matcher = NilMatcher
  /\ files = PlainFiles.fs
  /\ prev = NoPrev
  /\ query = NoQuery
  /\ answer = FALSE
  /\ app = NoApp
  /\ opts = NoOpts
  /\ printer = NoPrinter

NextPrinter ==
  \/ \E t \in Workers : PrintFileBegins(t)
  \/ \E t \in Workers : PrintFileSeparator(t)
  \/ \E t \in Workers : PrintFileEntry(t)

SpecPrinter == InitPrinter /\ [][NextPrinter]_vars

\* --------------------------------------------- the application's actions
beyondApp ==
  << options, matcher, files, prev, cancelled, mainPc, walkPc, walkPos, walkErr, queue,
     chanClosed, wpc, cur, items, stats, calls, evaluated, handlerErr, lateStarts,
     retErr, retItems, progress, query, answer, opts, printer >>

\* app.New builds the logger from the configuration.
AppNew ==
  /\ ~app.built
  /\ app' = [app EXCEPT !.built = TRUE, !.log = AppLogger(app.cfg)]
  /\ UNCHANGED beyondApp

\* Debug, Info, Warn, Error: the message is written iff the logger's level
\* is at most the call's.
Emits(log, level) == log.level <= level

LogCall ==
  /\ app.built
  /\ \E level \in {LevelDebug, LevelInfo, LevelWarn, LevelError} :
       app' = [app EXCEPT !.last = [level |-> level, emitted |-> Emits(app.log, level)]]
  /\ UNCHANGED beyondApp

InitLogger ==
  /\ matcher = NilMatcher
  /\ options = WalkOptions([c |-> FALSE, n |-> 1], 0, WithExtensions({}), "nil")
  /\ files = PlainFiles.fs
  /\ Fresh(1)
  /\ prev = NoPrev
  /\ query = NoQuery
  /\ answer = FALSE
  /\ \E cfg \in Configs : app = [NoApp EXCEPT !.cfg = cfg]
  /\ opts = NoOpts
  /\ printer = NoPrinter

NextLogger ==
  \/ AppNew
  \/ LogCall

SpecLogger == InitLogger /\ [][NextLogger]_vars

\* ====================================================== the properties
Returned == mainPc = "returned"

\* A directory whose subtree WalkDir leaves out: ignored by the matcher, or
\* not listable for lack of permission.
Ignored(e) == ShouldIgnore(matcher, RelPath(e), Entries[e].isDir)
Pruned(d) == Entries[d].isDir /\ Exists(d) /\ (Ignored(d) \/ files[d].readDirErr = "perm")
Visible(e) == Exists(e) /\ \A d \in DirIds : IsUnder(e, d) => ~Pruned(d)

\* The files that pass ignore matching and the extension filter.
PassesFilters(e) ==
  /\ e \in FileIds
  /\ Visible(e)
  /\ ~Ignored(e)
  /\ ExtensionAllowed(RelPath(e))

CallsFor(e) == {i \in 1..Len(calls) : calls[i].path = RelPath(e)}
ItemsFor(seq, e) == {i \in 1..Len(seq) : seq[i].path = RelPath(e)}
Queued(e) == \E i \in 1..Len(queue) : queue[i] = e
Held(e) == \E t \in DOMAIN cur : cur[t] = e

\* The skipped item the enumeration records for a visible entry, if any.
EntryItems(e) ==
  IF Ignored(e) THEN {SkippedItem(RelPath(e), ReasonIgnoredRule, Entries[e].isDir)}
  ELSE IF Entries[e].isDir THEN
    IF files[e].readDirErr = "perm" THEN {SkippedItem(RelPath(e), ReasonSkippedPermError, TRUE)}
    ELSE IF files[e].readDirErr = "other" THEN {SkippedItem(RelPath(e), ReasonSkippedWalkError, TRUE)}
    ELSE {}
  ELSE IF ~ExtensionAllowed(RelPath(e)) THEN {SkippedItem(RelPath(e), ReasonFilteredExtension, FALSE)}
  ELSE {}

ItemSet(seq) == {seq[i] : i \in 1..Len(seq)}

\* C1: with no cancellation, the concurrent walk (any worker count, any
\* interleaving) delivers to the handler exactly the set of files (with the
\* same content-or-error) that the sequential walk of the same tree under the
\* same filters delivered.
C1_SameDeliveredSet ==
  (Returned /\ prev.ran /\ ~cancelled) => CallSet = prev.calls

C1_Witness ==
  /\ Returned /\ prev.ran /\ ~cancelled
  /\ options.MaxWorkers >= 2
  /\ Cardinality(CallSet) >= 4

\* C2: in a walk that is not cancelled the handler is invoked exactly once
\* for every file that passes the ignore and extension filters and whose
\* Lstat (when one is made) succeeds.
C2_HandlerExactlyOnce ==
  (Returned /\ ~cancelled) =>
    \A e \in FileIds :
      (PassesFilters(e) /\ ~(options.MaxFileSize > 0 /\ files[e].attr.lstatErr))
        => Cardinality(CallsFor(e)) = 1

\* C3: nothing beneath a directory the matcher ignores is ever evaluated,
\* queued, held by a thread, recorded or delivered.
C3_IgnoredDirPruned ==
  \A d \in DirIds : \A e \in EntryIds :
    (IsUnder(e, d) /\ Ignored(d)) =>
      /\ e \notin evaluated
      /\ ~Queued(e)
      /\ ~Held(e)
      /\ CallsFor(e) = {}
      /\ ItemsFor(items, e) = {}

C3_Witness ==
  /\ Returned /\ options.Concurrent /\ ~cancelled
  /\ \E d \in DirIds : Ignored(d) /\ d \in evaluated /\ \E e \in FileIds : IsUnder(e, d)
  /\ Len(calls) >= 2

\* Files are still queued, or held by a worker that has not processed them.
WorkLeft == queue # << >> \/ \E w \in Workers : cur[w] # 0

\* C4: a concurrent walk that is cancelled while files are still queued or
\* held unprocessed returns a non-nil (cancellation) error.
C4_CancelledWalkReturnsError ==
  (Returned /\ options.Concurrent /\ cancelled /\ WorkLeft) => retErr = CtxErr

\* C5: Walk terminates: under every fair interleaving of the main thread,
\* the walk thread, the workers and the cancellation, Walk returns, in
\* concurrent mode with the queue closed and every worker gone.
C5_WalkTerminates ==
  <>(Returned /\ (options.Concurrent => chanClosed /\ WorkersJoined))

\* The producer gave up a send on a full queue because of the cancellation,
\* and Walk returned all the same.
C5_Witness ==
  /\ Returned /\ options.Concurrent /\ cancelled
  /\ Len(queue) = QueueCap
  /\ cur[WalkThread] # 0
  /\ retErr = CtxErr

\* C6: after the context is done each thread begins processFile at most
\* once more; only workers process files in concurrent mode and only the
\* walk thread in sequential mode, so at most MaxWorkers (resp. one) handler
\* invocations start after the cancellation.
C6_OneLateFilePerThread ==
  /\ \A t \in DOMAIN lateStarts : lateStarts[t] <= 1
  /\ options.Concurrent => lateStarts[WalkThread] = 0
  /\ ~options.Concurrent => \A w \in Workers : lateStarts[w] = 0

C6_Witness ==
  /\ options.Concurrent /\ options.MaxWorkers >= 2
  /\ \A w \in Workers : lateStarts[w] = 1
  /\ Returned

\* The handler got the file's content; the returned items name the file or
\* a directory above it.
DeliveredWithContent(e) == \E i \in CallsFor(e) : calls[i].content # "nil"
Accounted(e) ==
  \/ ItemsFor(retItems, e) # {}
  \/ \E d \in DirIds : IsUnder(e, d) /\ ItemsFor(retItems, d) # {}

\* C7: when Walk returns, every file that was evaluated or queued and was
\* not delivered with its content has an entry in the returned skipped
\* items, its own or that of an ancestor directory.
C7_NothingDroppedSilently ==
  Returned =>
    \A e \in FileIds :
      ((e \in evaluated \/ Queued(e) \/ Held(e)) /\ ~DeliveredWithContent(e)) => Accounted(e)

\* Why processFile does not deliver the content of a file ("none": it does).
FailureReason(e) ==
  LET f == files[e].attr IN
  IF options.MaxFileSize > 0 /\ f.lstatErr THEN ReasonSkippedInfoError
  ELSE IF options.MaxFileSize > 0 /\ ~f.regular THEN ReasonSkippedNotRegular
  ELSE IF options.MaxFileSize > 0 /\ f.size > options.MaxFileSize THEN ReasonSkippedSizeLimit
  ELSE IF f.readErr THEN ReasonSkippedReadError
  ELSE "none"

\* C8: every file that passes the filters and whose content is not
\* delivered is recorded with the matching reason and reported to the
\* handler exactly once, with nil content and a non-nil error.
C8_FailedFileRecordedAndReported ==
  (Returned /\ ~cancelled) =>
    \A e \in FileIds :
      (PassesFilters(e) /\ FailureReason(e) # "none") =>
        /\ \E i \in ItemsFor(retItems, e) : retItems[i].reason = FailureReason(e)
        /\ Cardinality(CallsFor(e)) = 1
        /\ \A i \in CallsFor(e) : calls[i].content = "nil" /\ calls[i].err # NoErr

\* C9: in every handler invocation exactly one of content and error is
\* non-nil.
C9_ContentXorError ==
  \A i \in 1..Len(calls) : (calls[i].content = "nil") # (calls[i].err = NoErr)

C9_Witness ==
  /\ \E i \in 1..Len(calls) : calls[i].err = "failed to read file"
  /\ \E i \in 1..Len(calls) : calls[i].err = NoErr /\ calls[i].content = "bytes"

\* The items of a complete walk: those of the filters and of processFile.
ExpectedItems ==
  UNION {EntryItems(e) : e \in {v \in EntryIds : v # 1 /\ Visible(v)}}
  \cup UNION {ItemSet(processFile(e).track) : e \in {v \in FileIds : PassesFilters(v)}}

\* C10: a handler that returns an error changes nothing: a walk that is not
\* cancelled still invokes the handler for every file that passes the
\* filters and reaches a handler call, returns the skipped items of the
\* filters and of processFile only, and returns a nil error.
C10_HandlerErrorNeverAborts ==
  (Returned /\ handlerErr /\ ~cancelled) =>
    /\ retErr = NoErr
    /\ \A e \in FileIds :
         (PassesFilters(e) /\ processFile(e).call # << >>) => CallsFor(e) # {}
    /\ ItemSet(retItems) = ExpectedItems

C10_Witness ==
  /\ Returned /\ handlerErr /\ ~cancelled
  /\ Len(calls) >= 3
  /\ retItems # << >>

\* What the stored custom patterns say about a path when read as ignore
\* rules: "ignore", "include" or "none".
CustomRules(m) == [i \in 1..Len(m.customPatterns) |-> ParsePattern(m.customPatterns[i])]
CustomVerdict(m, p, isDir) == RepoMatch(CustomRules(m), p, isDir)
NoNegation(rules) == \A i \in 1..Len(rules) : ~rules[i].neg

\* C11: a matcher built with custom ignore patterns (the -ignore flag,
\* WithCustomRules) and not disabled ignores every path those patterns
\* match, whatever the repository's own ignore files say.
C11_CustomPatternsExclude ==
  ( /\ query.asked
    /\ ~matcher.nil /\ ~matcher.disabled
    /\ query.path \notin {EmptyPath, Dot}
    /\ NoNegation(matcher.rules)
    /\ CustomVerdict(matcher, query.path, query.isDir) = "ignore" )
  => answer

\* The walk of scenario A.
IsScenarioA ==
  /\ matcher = ScenarioAMatcher
  /\ files = ScenarioAFiles
  /\ options.ExtensionMap = WithExtensions({x_go})
  /\ options.MaxFileSize = 0

HasItem(seq, p, reason) == \E i \in 1..Len(seq) : seq[i].path = p /\ seq[i].reason = reason

\* C12: scenario A (a.go, .hidden/file.go, dist/out.bin; hidden rule on,
\* custom pattern dist/ , extension go): only a.go reaches the handler, and
\* the returned skipped items hold .hidden/file.go with reason "Ignored
\* (Hidden Rule)" and dist/out.bin with reason "Ignored (Gitignore/Custom
\* Rule)".
C12_ScenarioA ==
  (Returned /\ ~cancelled /\ IsScenarioA) =>
    /\ {calls[i].path : i \in 1..Len(calls)} = {<< n_a_go >>}
    /\ HasItem(retItems, << n_hidden, n_file_go >>, ReasonIgnoredHidden)
    /\ HasItem(retItems, << n_dist, n_out_bin >>, ReasonIgnoredRule)

\* C13: with the hidden policy on and the matcher not disabled, ShouldIgnore
\* is true for every path other than the root that has a name starting with
\* a dot, as its last name or as a directory above it, for both values of
\* isDir.
C13_HiddenComponentIgnored ==
  ( /\ query.asked
    /\ ~matcher.nil /\ ~matcher.disabled
    /\ matcher.ignoreHidden
    /\ query.path \notin {EmptyPath, Dot}
    /\ \E i \in 1..Len(query.path) : HasPrefixDot(query.path[i]) )
  => answer

\* Only a directory above the file is hidden, and no other rule applies.
C13_Witness ==
  /\ query.asked /\ query.path = << n_sub, n_hidden, n_a_go >> /\ ~query.isDir
  /\ ~matcher.nil /\ ~matcher.disabled
  /\ matcher.ignoreHidden /\ ~matcher.ignoreGit /\ matcher.rules = << >>
  /\ answer

\* A directory named .git lies above the path, or the path is such a directory.
GitDirAbove(p) == \E i \in 1..(Len(p) - 1) : p[i] = n_git
IsGitDir(p, isDir) == isDir /\ Len(p) > 0 /\ p[Len(p)] = n_git

\* C14: with the VCS policy on and the hidden policy off, ShouldIgnore is
\* true for a directory named exactly .git at any depth and for every path
\* beneath one; the VCS rule alone (no repository rule) ignores neither a
\* name such as .gitfoo nor a file named .git .
C14_GitDirIgnored ==
  ( /\ query.asked
    /\ ~matcher.nil /\ ~matcher.disabled
    /\ matcher.ignoreGit /\ ~matcher.ignoreHidden )
  => /\ (GitDirAbove(query.path) \/ IsGitDir(query.path, query.isDir)) => answer
     /\ ( /\ matcher.rules = << >>
          /\ ~GitDirAbove(query.path)
          /\ ~IsGitDir(query.path, query.isDir) ) => ~answer

\* A file named .git beneath a directory is asked about and not ignored.
C14_Witness ==
  /\ query.asked /\ query.path = << n_sub, n_git >> /\ ~query.isDir
  /\ ~matcher.nil /\ ~matcher.disabled
  /\ matcher.ignoreGit /\ ~matcher.ignoreHidden /\ matcher.rules = << >>
  /\ ~answer

\* Neither the hidden rule nor the VCS rule settles the path: a matcher
\* that is on, a path other than the root, and the engine decides.
EngineDecides ==
  /\ query.asked
  /\ ~matcher.nil /\ ~matcher.disabled
  /\ query.path \notin {EmptyPath, Dot}
  /\ ~(matcher.ignoreHidden /\ \E i \in 1..Len(query.path) : HasPrefixDot(query.path[i]))
  /\ ~(matcher.ignoreGit /\ (GitDirAbove(query.path) \/ IsGitDir(query.path, query.isDir)))

\* C15: a negation rule overrides an earlier exclusion: under the rules
\* *.log and !keep.log the file keep.log is not ignored and the file
\* other.log is; where the engine decides, ShouldIgnore is the engine's
\* final verdict, and false when no rule matches or the engine fails on
\* the path.
C15_NegationAndFailOpen ==
  EngineDecides =>
    /\ query.path \in matcher.panicsOn => ~answer
    /\ query.path \notin matcher.panicsOn =>
         /\ answer = (RepoMatch(matcher.rules, query.path, query.isDir) = "ignore")
         /\ (\A i \in 1..Len(matcher.rules) :
               ~RuleMatches(matcher.rules[i], query.path, query.isDir)
               /\ ~RuleMatches(matcher.rules[i], Dir(query.path), TRUE)) => ~answer
         /\ matcher.rules = LogRules.rules =>
              /\ (query.path = << n_keep_log >> /\ ~query.isDir) => ~answer
              /\ (query.path = << n_other_log >> /\ ~query.isDir) => answer

\* The engine panics on a path its rules would ignore.
C15_Witness ==
  /\ EngineDecides
  /\ query.path \in matcher.panicsOn
  /\ RepoMatch(matcher.rules, query.path, query.isDir) = "ignore"
  /\ ~answer

\* C16: a disabled matcher and a nil matcher ignore nothing, whatever the
\* policies and patterns they were given; a walk with such a matcher records
\* no item with reason "Ignored (Gitignore/Custom Rule)" and leaves out no
\* directory on the matcher's account: when the walk of a root directory
\* returns without cancellation every entry not beneath an unlistable
\* directory has been evaluated.
C16_DisabledNeverIgnores ==
  (matcher.nil \/ matcher.disabled) =>
    /\ \A p \in QueryPaths, isDir \in BOOLEAN : ~ShouldIgnore(matcher, p, isDir)
    /\ \A i \in 1..Len(items) : items[i].reason # ReasonIgnoredRule
    /\ (Returned /\ ~cancelled /\ files[1].kind = "dir") =>
         \A e \in EntryIds :
           (Exists(e) /\ \A d \in DirIds : IsUnder(e, d) => files[d].readDirErr # "perm")
             => e \in evaluated

\* A disabled matcher with both policies on and a custom pattern: the walk
\* delivered the hidden file and the file under dist.
C16_Witness ==
  /\ Returned /\ ~cancelled
  /\ matcher.disabled /\ matcher.ignoreHidden /\ matcher.ignoreGit
  /\ matcher.customPatterns # << >>
  /\ \E i \in 1..Len(calls) : calls[i].path = << n_hidden, n_file_go >>
  /\ \E i \in 1..Len(calls) : calls[i].path = << n_dist, n_out_bin >>

\* C17: the root is never ignored: ShouldIgnore is false for "" and for "."
\* under every configuration, and the walker neither prunes, nor delivers,
\* nor queues, nor records the root entry.
C17_RootNeverIgnored ==
  /\ (query.asked /\ query.path \in {EmptyPath, Dot}) => ~answer
  /\ \A e \in EntryIds :
       Entries[e].parent = 0 =>
         LET r == processEntry(e, "none")
         IN r.ret = NoErr /\ ~r.process /\ r.track = << >>

\* "." is asked about under a matcher whose hidden rule would match it.
C17_Witness ==
  /\ query.asked /\ query.path = Dot
  /\ ~matcher.nil /\ ~matcher.disabled /\ matcher.ignoreHidden
  /\ ~answer

\* A regular file that Lstat and ReadFile handle without error.
Readable(e) ==
  /\ files[e].attr.regular
  /\ ~files[e].attr.lstatErr
  /\ ~files[e].attr.readErr

DeliveredOnce(e) ==
  /\ Cardinality(CallsFor(e)) = 1
  /\ \A i \in CallsFor(e) : calls[i].content = "bytes" /\ calls[i].err = NoErr

\* C19: under a size limit M > 0 a regular file of exactly M bytes is read
\* and delivered with its content, and one of M + 1 bytes is not read, is
\* recorded with reason "Skipped (Size Limit Exceeded)" and is reported to
\* the handler with nil content and a size-limit error; with M = 0 no file
\* is rejected for its size.
C19_SizeLimitBoundary ==
  (Returned /\ ~cancelled) =>
    \A e \in FileIds :
      (PassesFilters(e) /\ Readable(e)) =>
        LET M    == options.MaxFileSize
            size == files[e].attr.size
        IN /\ (M > 0 /\ size = M) =>
                DeliveredOnce(e) /\ ~HasItem(retItems, RelPath(e), ReasonSkippedSizeLimit)
           /\ (M > 0 /\ size = M + 1) =>
                /\ HasItem(retItems, RelPath(e), ReasonSkippedSizeLimit)
                /\ Cardinality(CallsFor(e)) = 1
                /\ \A i \in CallsFor(e) :
                     calls[i].content = "nil" /\ calls[i].err = "file size exceeds limit"
           /\ M = 0 =>
                DeliveredOnce(e) /\ ~HasItem(retItems, RelPath(e), ReasonSkippedSizeLimit)

\* One walk under a limit met a file of exactly the limit and one a byte larger.
C19_Witness ==
  /\ Returned /\ ~cancelled
  /\ options.MaxFileSize = SizeLimit
  /\ \E e \in FileIds :
       PassesFilters(e) /\ files[e].attr = FileOk /\ DeliveredOnce(e)
  /\ \E e \in FileIds :
       /\ PassesFilters(e) /\ files[e].attr = FileBig
       /\ HasItem(retItems, RelPath(e), ReasonSkippedSizeLimit)

\* The file's extension equals a member of the allow-set when letter case
\* is disregarded, or the allow-set is empty.
EligibleByExtension(e) ==
  \/ options.ExtensionMap = {}
  \/ \E x \in options.ExtensionMap : ToLower(x) = ToLower(TrimDot(Ext(RelPath(e))))

\* C20: a file that passes ignore matching is eligible exactly when the
\* allow-set is empty or its extension, without the dot, equals a member of
\* the allow-set under case-insensitive comparison, whatever the letter case
\* of the file name and of the extensions the caller supplied; a rejected
\* file is recorded with reason "Filtered (Extension Mismatch)" and never
\* reaches the handler, an eligible one is not recorded so.
C20_ExtensionFilterCaseInsensitive ==
  (Returned /\ ~cancelled) =>
    \A e \in FileIds :
      (Visible(e) /\ ~Ignored(e)) =>
        IF EligibleByExtension(e)
        THEN /\ ~HasItem(retItems, RelPath(e), ReasonFilteredExtension)
             /\ processFile(e).call # << >> => CallsFor(e) # {}
        ELSE /\ HasItem(retItems, RelPath(e), ReasonFilteredExtension)
             /\ CallsFor(e) = {}

\* The root handed to Walk is a directory that exists.
GoodRoot == files[1].kind = "dir"

\* C21: on a bad root (it cannot be resolved, does not exist or is not a
\* directory) Walk returns a non-nil error and invokes the handler for no
\* file; and Walk's error is non-nil only for a bad root or a cancellation.
C21_BadRootIsFatal ==
  Returned =>
    /\ ~GoodRoot => (retErr # NoErr /\ calls = << >>)
    /\ retErr # NoErr => (~GoodRoot \/ cancelled)

\* A directory the walk reaches and the matcher does not ignore, whose
\* listing fails with derr.
ListingFails(d, derr) ==
  /\ d \in DirIds /\ Exists(d) /\ Entries[d].parent # 0
  /\ Visible(d) /\ ~Ignored(d)
  /\ files[d].readDirErr = derr

\* C22: enumeration faults are not fatal and stay local: a directory that
\* may not be listed is recorded with reason "Skipped (Permission Error)"
\* and nothing beneath it is evaluated; a directory whose listing fails
\* otherwise is recorded with reason "Skipped (Walk Error)"; in both cases
\* every other entry the walk can reach is still evaluated and Walk returns
\* a nil error.
C22_EnumerationFaultsLocal ==
  (Returned /\ ~cancelled /\ GoodRoot
     /\ \E d \in DirIds : ListingFails(d, "perm") \/ ListingFails(d, "other")) =>
    /\ retErr = NoErr
    /\ \A d \in DirIds :
         /\ ListingFails(d, "perm") =>
              /\ HasItem(retItems, RelPath(d), ReasonSkippedPermError)
              /\ \A e \in EntryIds : IsUnder(e, d) => e \notin evaluated
         /\ ListingFails(d, "other") =>
              HasItem(retItems, RelPath(d), ReasonSkippedWalkError)
    /\ \A e \in EntryIds : Visible(e) => e \in evaluated
    /\ \A e \in FileIds :
         (PassesFilters(e) /\ processFile(e).call # << >>) => CallsFor(e) # {}

\* The listing of dist was refused, and the concurrent walk went on to
\* deliver a file of the directory after it.
C22_Witness ==
  /\ Returned /\ ~cancelled /\ options.Concurrent
  /\ ListingFails(FailingDir, "perm")
  /\ HasItem(retItems, RelPath(FailingDir), ReasonSkippedPermError)
  /\ \E i \in 1..Len(calls) : calls[i].path = << n_sub, n_c_go >>

\* The entry a relative path names.
EntryOf(p) == CHOOSE e \in EntryIds : RelPath(e) = p

\* C23: in sequential mode the handler invocations occur in the traversal
\* order of the files, on the walk thread only, and each file's invocation
\* is complete before a later entry is evaluated.
C23_SequentialOrder ==
  ~options.Concurrent =>
    /\ \A i, j \in 1..Len(calls) :
         i < j => EntryOf(calls[i].path) < EntryOf(calls[j].path)
    /\ \A t \in DOMAIN cur : t # WalkThread => cur[t] = 0
    /\ queue = << >>
    /\ \A e \in evaluated : \A f \in FileIds :
         (f \in evaluated /\ f < e /\ PassesFilters(f) /\ processFile(f).call # << >>)
           => CallsFor(f) # {}

C23_Witness ==
  /\ ~options.Concurrent /\ Returned /\ ~cancelled
  /\ Len(calls) >= 4
  /\ \A i \in 1..(Len(calls) - 1) : EntryOf(calls[i].path) < EntryOf(calls[i + 1].path)

\* One step of the tracker and of Walk's return: the list only grows at its
\* end, and Walk returns the list as it is once every worker has exited.
TrackerStep ==
  /\ Len(items') >= Len(items)
  /\ SubSeq(items', 1, Len(items)) = items
  /\ (mainPc # "returned" /\ mainPc' = "returned" /\ GoodRoot) =>
       /\ retItems' = items
       /\ options.Concurrent => \A w \in Workers : wpc[w] = "exited"

\* C24: the tracker loses nothing under concurrency: whatever the
\* interleaving of the Track calls of the enumeration thread and of the
\* workers, an appended entry is never altered or removed, Walk takes its
\* snapshot only after every worker has exited, and a walk that is not
\* cancelled returns exactly one entry per Track call.
C24_TrackerLosesNothing ==
  /\ [][TrackerStep]_vars
  /\ [](  (Returned /\ ~cancelled /\ GoodRoot) =>
            /\ ItemSet(retItems) = ExpectedItems
            /\ Len(retItems) = Cardinality(ExpectedItems) )

\* Two workers and the enumeration thread tracked items in one walk.
C24_Witness ==
  /\ Returned /\ ~cancelled /\ options.Concurrent /\ options.MaxWorkers >= 2
  /\ \E i \in 1..Len(retItems) : retItems[i].reason = ReasonSkippedSizeLimit
  /\ \E i \in 1..Len(retItems) : retItems[i].reason = ReasonIgnoredRule
  /\ Len(retItems) >= 3

FileItems(seq) == {i \in 1..Len(seq) : ~seq[i].isDir}
DirItems(seq)  == {i \in 1..Len(seq) : seq[i].isDir}

\* C25: every skip updates both the skip log and the counters, in either
\* mode: when a walk ends the SkippedFiles counter equals the number of file
\* entries among the skipped items and the SkippedDirs counter the number of
\* directory entries, the skips decided while reading a file included.
C25_SkipCountersMatchLog ==
  (Returned /\ files[1].kind # "unresolvable") =>
    /\ stats.skippedFiles = Cardinality(FileItems(retItems))
    /\ stats.skippedDirs = Cardinality(DirItems(retItems))

\* The enumeration thread waits at a full queue.
BlockedAtFullQueue ==
  /\ walkPc = "push"
  /\ Len(queue) = 2 * options.MaxWorkers

\* C29: in concurrent mode the queue never holds more than twice the worker
\* count; at a full queue the enumeration thread enqueues nothing and goes
\* nowhere until a worker dequeues or the cancellation fires; and in a walk
\* that is not cancelled no file that passed the filters is lost: each is
\* handed to processFile, which calls the handler or records the file.
C29_BackpressureBound ==
  /\ [](options.Concurrent => Len(queue) <= 2 * options.MaxWorkers)
  /\ [][BlockedAtFullQueue =>
          (/\ Len(queue') <= Len(queue)
           /\ walkPc' # walkPc => cancelled)]_vars
  /\ []((Returned /\ ~cancelled /\ options.Concurrent) =>
          \A e \in FileIds :
            PassesFilters(e) => (CallsFor(e) # {} \/ ItemsFor(retItems, e) # {}))

C29_Witness ==
  /\ BlockedAtFullQueue /\ ~cancelled
  /\ options.Concurrent /\ options.MaxWorkers >= 2

\* The files that passed every filter of the enumeration.
Eligible == {e \in FileIds : PassesFilters(e)}

\* C30: the ProcessedFiles counter counts each file that passed all filters
\* exactly once, in sequential and in concurrent mode alike: when a walk
\* that was not cancelled ends it equals the number of eligible files, and
\* in every state ProcessedFiles + SkippedFiles <= TotalFiles.
C30_ProcessedCountsEligible ==
  /\ (Returned /\ ~cancelled /\ GoodRoot) => stats.processedFiles = Cardinality(Eligible)
  /\ stats.processedFiles + stats.skippedFiles <= stats.totalFiles

\* C26: a progress callback that never returns stalls only the reporting
\* timer: the walk still hands every eligible file to the handler and
\* Walk still returns.
C26_BlockingProgressDoesNotStall ==
  (options.ProgressFn = "blocks" /\ GoodRoot)
    ~> (Returned /\ (~cancelled => \A e \in Eligible : CallsFor(e) # {}))

\* C27: without a progress callback the timer task is never started and
\* no callback is ever invoked; once the walk's context is cancelled the
\* timer task makes no further callback invocation.
C27_ReporterLifecycle ==
  /\ options.ProgressFn = "nil" => (progress.timer = "none" /\ ~progress.called)
  /\ ~progress.late

\* C28: the -verbose flag enables DEBUG logging: once the application has
\* built its logger from a configuration with Verbose set and -quiet and
\* -log-level left at their defaults, the logger's level is DEBUG and a
\* Debug message is written.
C28_VerboseEnablesDebug ==
  (/\ app.built
   /\ app.cfg.Verbose /\ ~app.cfg.Quiet /\ app.cfg.LogLevel = DefaultLogLevel)
    => /\ app.log.level = LevelDebug
       /\ app.last.level = LevelDebug => app.last.emitted

\* C31: the worker count is always positive: whatever WithMaxWorkers
\* options were applied (zero and negative arguments included) the
\* effective count is at least 1, and a concurrent walk that has begun has
\* started exactly that many workers on a queue of positive capacity.
C31_WorkerCountPositive ==
  /\ options.MaxWorkers >= 1
  /\ (mainPc # "call" /\ options.Concurrent) =>
       /\ DOMAIN wpc = 1..options.MaxWorkers
       /\ \A w \in DOMAIN wpc : wpc[w] = "recv"
       /\ options.MaxWorkers * 2 >= 1

\* A concurrent walk began after WithMaxWorkers was applied with an
\* argument that is not positive.
C31_Witness ==
  /\ mainPc = "wait" /\ options.Concurrent
  /\ \E i \in 1..Len(opts.done) :
       opts.done[i].opt = "WithMaxWorkers" /\ opts.done[i].workers <= 0
  /\ \E w \in DOMAIN wpc : wpc[w] = "recv"

\* The checks an entry goes through, in the order the walk makes them, and
\* the reasons each may record.  The stat, regular-file and size checks are
\* made only under a size limit; WalkDir reports a listing error only for a
\* directory its first visit did not skip.
ChecksInOrder == << "walk error", "matcher", "extension", "stat", "regular", "size", "read" >>
CheckFails(e, check) ==
  LET isDir == Entries[e].isDir
      limit == options.MaxFileSize
  IN CASE check = "walk error" -> isDir /\ ~Ignored(e) /\ files[e].readDirErr # "none"
       [] check = "matcher"    -> Ignored(e)
       [] check = "extension"  -> ~isDir /\ ~ExtensionAllowed(RelPath(e))
       [] check = "stat"       -> ~isDir /\ limit > 0 /\ files[e].attr.lstatErr
       [] check = "regular"    -> ~isDir /\ limit > 0 /\ ~files[e].attr.regular
       [] check = "size"       -> ~isDir /\ limit > 0 /\ files[e].attr.size > limit
       [] check = "read"       -> ~isDir /\ files[e].attr.readErr
ReasonsOfCheck(check) ==
  CASE check = "walk error" -> {ReasonSkippedWalkError, ReasonSkippedPermError}
    [] check = "matcher"    -> {ReasonIgnoredRule, ReasonIgnoredHidden}
    [] check = "extension"  -> {ReasonFilteredExtension}
    [] check = "stat"       -> {ReasonSkippedInfoError}
    [] check = "regular"    -> {ReasonSkippedNotRegular}
    [] check = "size"       -> {ReasonSkippedSizeLimit}
    [] check = "read"       -> {ReasonSkippedReadError}
FailingChecks(e) == {i \in 1..Len(ChecksInOrder) : CheckFails(e, ChecksInOrder[i])}
FirstFailingCheck(e) ==
  ChecksInOrder[CHOOSE i \in FailingChecks(e) : \A j \in FailingChecks(e) : i <= j]

\* C32: each evaluated entry has exactly one outcome: its path appears at
\* most once in the skipped items, with a reason of the first check it
\* fails in the order walk error, matcher, extension, stat, regular file,
\* size, read; and no path is both delivered to the handler with content
\* and present in the skipped items.
C32_OneOutcomePerEntry ==
  \A e \in EntryIds :
    Exists(e) =>
      /\ Cardinality(ItemsFor(items, e)) <= 1
      /\ \A i \in ItemsFor(items, e) :
           /\ FailingChecks(e) # {}
           /\ items[i].reason \in ReasonsOfCheck(FirstFailingCheck(e))
      /\ ~(DeliveredWithContent(e) /\ ItemsFor(items, e) # {})

\* A file that is not regular, too large and unreadable was recorded as
\* not regular, and another file was delivered with its content.
C32_Witness ==
  /\ Returned /\ options.MaxFileSize > 0
  /\ files[VariedFile].attr = FileSymlinkBig
  /\ \E i \in ItemsFor(items, VariedFile) : items[i].reason = ReasonSkippedNotRegular
  /\ \E e \in FileIds : DeliveredWithContent(e) /\ ItemsFor(items, e) = {}

\* C33: once the context is cancelled the enumeration thread evaluates no
\* further entry and pushes at most one further file onto the queue, the
\* one it already held at the send: it never arrives at the send again.
C33_ProducerStopsOnCancel ==
  [][cancelled =>
       /\ evaluated' = evaluated
       /\ Len(queue') > Len(queue) =>
            (walkPc = "push" /\ walkPc' # "push" /\ queue' = Append(queue, cur[WalkThread]))
       /\ walkPc' = "push" => walkPc = "push"]_vars

\* The producer saw the cancellation at an entry and ended the walk: files
\* it pushed are still queued, and a file it would have reached was never
\* evaluated.
C33_Witness ==
  /\ cancelled /\ options.Concurrent
  /\ walkPc = "done" /\ walkErr = CtxErr
  /\ cur[WalkThread] = 0 /\ Len(queue) > 0
  /\ \E e \in FileIds : Visible(e) /\ e \notin evaluated

\* C34: no handler invocation and no Track call is in progress or starts
\* after Walk has returned: once Walk has returned the handler calls and
\* the tracked items never change, the enumeration has finished and, in
\* concurrent mode, the queue is closed (it is closed once, by the main
\* thread, before it waits for the workers) and every worker has exited.
C34_NothingRunsAfterReturn ==
  /\ [](Returned =>
          /\ walkPc \in {"none", "done"}
          /\ (options.Concurrent /\ walkPc = "done") =>
               (chanClosed /\ \A w \in 1..options.MaxWorkers : wpc[w] = "exited"))
  /\ [][(Returned => (calls' = calls /\ items' = items))
        /\ (chanClosed' # chanClosed => (~chanClosed /\ mainPc = "wait" /\ walkPc = "done"))]_vars

\* A concurrent walk with several workers returned after handler calls and
\* tracked items, with every worker gone.
C34_Witness ==
  /\ Returned /\ options.Concurrent /\ options.MaxWorkers >= 2
  /\ Len(calls) >= 2 /\ Len(items) >= 1
  /\ chanClosed /\ \A w \in 1..options.MaxWorkers : wpc[w] = "exited"

\* C35: the progress callback is never invoked after Walk has returned:
\* by the time Walk returns the timer task has stopped and is not inside a
\* callback invocation.
C35_NoProgressAfterReturn ==
  Returned =>
    /\ progress.timer \in {"none", "stopped"}
    /\ ~progress.afterReturn

\* The entries of the directory of e that WalkDir visits after e.
LaterSiblings(e) == {s \in EntryIds : s > e /\ Entries[s].parent = Entries[e].parent /\ Exists(s)}

\* C36: skipping a file never suppresses its siblings: the subtree-skip
\* signal is returned to WalkDir only for directories, so when a walk that
\* was not cancelled ends, every later entry of the directory of a file
\* that was ignored or filtered has been evaluated.
C36_SkippedFileKeepsSiblings ==
  /\ \A e \in EntryIds :
       (Exists(e) /\ ~Entries[e].isDir) =>
         /\ processEntry(e, "none").ret # SkipDir
         /\ processEntry(e, "other").ret # SkipDir
         /\ processEntry(e, "perm").ret # SkipDir
  /\ (Returned /\ ~cancelled /\ GoodRoot) =>
       \A e \in FileIds :
         (e \in evaluated /\ ItemsFor(items, e) # {}) => LaterSiblings(e) \subseteq evaluated

\* A file ignored by the matcher is followed in its directory by entries
\* that were evaluated.
C36_Witness ==
  /\ Returned /\ ~cancelled
  /\ \E e \in FileIds :
       /\ \E i \in ItemsFor(items, e) : items[i].reason = ReasonIgnoredRule
       /\ LaterSiblings(e) # {}
       /\ LaterSiblings(e) \subseteq evaluated

\* The files a set of handler invocations delivers with content, and those
\* it names at all.
DeliveredPaths(cs) == {c.path : c \in {d \in cs : d.content # "nil"}}
InvokedPaths(cs) == {c.path : c \in cs}

\* C37: a size limit that no file exceeds does not change what is
\* delivered: the files delivered with content, and the files the handler
\* is invoked for at all, are the same under MaxFileSize = 0 and under a
\* limit at least as large as every file.
C37_AmpleLimitChangesNothing ==
  (Returned /\ ~cancelled /\ prev.ran) =>
    /\ DeliveredPaths(CallSet) = DeliveredPaths(prev.calls)
    /\ InvokedPaths(CallSet) = InvokedPaths(prev.calls)

\* The entries written, and whether the whole output is the array opened by
\* one bracket with one comma before every entry but the first.
EntriesWritten == {i \in 1..Len(printer.out) : printer.out[i].tok = "entry"}
WellFormedOutput ==
  \A i \in 1..Len(printer.out) :
    IF i = 1 THEN printer.out[i].tok = "["
    ELSE IF i % 2 = 0 THEN i \in EntriesWritten
    ELSE printer.out[i].tok = ","

\* C38: in concurrent mode with two or more workers and JSON output the
\* printed output is well formed under every interleaving of handler
\* invocations: whenever no PrintFile is in progress there is exactly one
\* opening bracket, every entry after the first is preceded by exactly one
\* comma, and the printer's count equals the number of entries written.
C38_JsonWellFormed ==
  (options.MaxWorkers >= 2 /\ \A t \in DOMAIN printer.pc : printer.pc[t] = "idle") =>
    /\ WellFormedOutput
    /\ printer.count = Cardinality(EntriesWritten)

\* One snapshot has no counter below the other's.
NotBelow(new, old) ==
  /\ new.totalFiles >= old.totalFiles
  /\ new.processedFiles >= old.processedFiles
  /\ new.skippedFiles >= old.skippedFiles
  /\ new.totalDirs >= old.totalDirs
  /\ new.skippedDirs >= old.skippedDirs

\* C39: successive ProgressStats snapshots delivered to the progress
\* callback during one walk have non-decreasing counters, whichever thread
\* makes the invocation: no counter of a snapshot is below that of the
\* snapshot delivered before it.
C39_SnapshotsNeverDecrease ==
  [][NotBelow(progress'.last, progress.last)]_vars

====
